---------------------------- MODULE Spec2Model ----------------------------
(***************************************************************************)
(* FelineES: the rule-based diagnosis engines of the Feline Neurological   *)
(* Diagnosis Expert System.                                                *)
(*                                                                         *)
(*   - the knowledge base (data.js, 30 diagnostic rules),                  *)
(*   - the weighted-scoring "Priority Waterfall" engine                    *)
(*     (FelineNeuroDiagnosisEngine) with its input validator,              *)
(*   - the forward-chaining engine (FelineNeuroForwardChainingEngine).     *)
(*                                                                         *)
(* JavaScript values are encoded as strings: the booleans true and false   *)
(* are "true" and "false", the value undefined (a property that is not     *)
(* set) is "undefined"; every other string is the JavaScript string with   *)
(* the same characters.  TypeOf gives the typeof of an encoded value.      *)
(***************************************************************************)
EXTENDS Integers, Sequences, FiniteSets, TLC

VARIABLES
    sortedRules,     \* FelineNeuroDiagnosisEngine.sortedRules, the array data.diagnosticRules
                     \* (references to rule objects, by rule id)
    forwardChainingRules, \* FelineNeuroForwardChainingEngine.forwardChainingRules
                     \* (references to inference rule objects, by id)
    lastDiagnosis,   \* FelineNeuroDiagnosisEngine.lastDiagnosis
    bufferedInputs,  \* FelineNeuroDiagnosisEngine.bufferedInputs
    fcLastDiagnosis, \* FelineNeuroForwardChainingEngine.lastDiagnosis
    chain,           \* the locals of a forwardChaining call in progress (workingMemory,
                     \* appliedRules, changed, iteration, position in the rule loop);
                     \* Null when none is
    database,        \* FelineNeuroForwardChainingEngine.database: Null, or the
                     \* database object with the state of its init() promise, the
                     \* storeDiagnosis promises not yet settled, and what became of
                     \* the settled ones
    app,             \* FelineNeuroDiagnosisApp, Null where the engines are used without
                     \* it: isAnalyzing, the confirmation dialogs in the document, and
                     \* each invocation of its runDiagnosis (position and collected inputs)
    op,              \* the operation the caller performed last
    inputs,          \* the observation passed to that operation
    outcome,         \* "none" | "returned" | "threw"
    result,          \* the value it returned (Null when it threw or returned nothing)
    error,           \* the kind of Error it threw ("none" when it returned)
    calls            \* number of operations performed so far

vars == << sortedRules, forwardChainingRules, lastDiagnosis, bufferedInputs, fcLastDiagnosis, chain,
           database, app,
           op, inputs, outcome, result, error, calls >>

-----------------------------------------------------------------------------
(* Bounds of the model *)

\* An observation handed to an operation has at most MaxBad fields that are
\* missing, empty, out of enumeration or of the wrong type.
MaxBad == 1

\* A session (SpecSession) performs at most MaxCalls operations.
MaxCalls == 3

-----------------------------------------------------------------------------
(* JavaScript values *)

JsTrue == "true"
JsFalse == "false"
Undefined == "undefined"

\* null, as the value of lastDiagnosis / of an operation without a result
Null == [ null |-> TRUE ]

TypeOf(v) ==
    IF v \in {JsTrue, JsFalse} THEN "boolean"
    ELSE IF v = Undefined THEN "undefined"
    ELSE "string"

\* !v for the encoded values: undefined and the empty string are falsy, the
\* boolean false is falsy, every other string is truthy.
Falsy(v) == v \in {Undefined, "", JsFalse}

-----------------------------------------------------------------------------
(* The observation: 4 categorical fields and 7 boolean sign fields *)

requiredFields == << "age_group", "onset_speed", "mobility_status", "seizures" >>

booleanFields == << "eye_signs", "pain_signs", "head_tilt", "recent_trauma",
                    "cold_limbs", "neck_flexion", "ear_issues" >>

inputFields == << "age_group", "onset_speed", "mobility_status", "seizures",
                  "eye_signs", "pain_signs", "head_tilt", "recent_trauma",
                  "cold_limbs", "neck_flexion", "ear_issues" >>

Range(s) == { s[i] : i \in DOMAIN s }

Fields == Range(inputFields)

validAgeGroups == << "kitten", "adult", "senior" >>
validOnset == << "sudden", "gradual" >>
validMobility == << "normal", "wobbly", "paralyzed" >>
validSeizures == << "none", "mild", "severe" >>

\* Array.prototype.includes
Includes(arr, v) == \E i \in DOMAIN arr : arr[i] = v

-----------------------------------------------------------------------------
(* The knowledge base: data.js, diagnosticRules                            *)
(*                                                                         *)
(* A rule's condition is a JavaScript arrow function.  Its source text is  *)
(* a conjunction (&&) of clauses, each clause a disjunction (||) of        *)
(* comparisons  inputs.<field> <op> <value>;  `return true` is the empty   *)
(* conjunction.  The condition is kept in that form, so that calling it    *)
(* (ConditionHolds) and inspecting its text (TextIncludesField,            *)
(* TextIncludesComparison) are both computed from what the source says.    *)

Atom(f, o, v) == [ field |-> f, op |-> o, value |-> v ]

diagnosticRules ==
  <<
    [ id |-> "TRAUMATIC_BRAIN_INJURY", priority |-> 1, urgency |-> "EMERGENCY",
      condition |-> <<
          <<Atom("recent_trauma", "===", "true")>>,
          <<Atom("seizures", "===", "severe")>> >> ],
    [ id |-> "SPINAL_FRACTURE", priority |-> 2, urgency |-> "EMERGENCY",
      condition |-> <<
          <<Atom("recent_trauma", "===", "true")>>,
          <<Atom("mobility_status", "===", "paralyzed")>> >> ],
    [ id |-> "GENERAL_TRAUMA", priority |-> 3, urgency |-> "EMERGENCY",
      condition |-> <<
          <<Atom("recent_trauma", "===", "true")>> >> ],
    [ id |-> "SADDLE_THROMBUS", priority |-> 4, urgency |-> "EMERGENCY",
      condition |-> <<
          <<Atom("mobility_status", "!==", "normal")>>,
          <<Atom("pain_signs", "===", "true")>>,
          <<Atom("cold_limbs", "===", "true")>> >> ],
    [ id |-> "ACUTE_TOXICITY", priority |-> 5, urgency |-> "EMERGENCY",
      condition |-> <<
          <<Atom("onset_speed", "===", "sudden")>>,
          <<Atom("seizures", "===", "severe")>>,
          <<Atom("eye_signs", "===", "true")>> >> ],
    [ id |-> "HYPOGLYCEMIA", priority |-> 6, urgency |-> "HIGH",
      condition |-> <<
          <<Atom("age_group", "===", "kitten")>>,
          <<Atom("onset_speed", "===", "sudden")>>,
          <<Atom("seizures", "!==", "none")>> >> ],
    [ id |-> "THIAMINE_DEFICIENCY", priority |-> 7, urgency |-> "MODERATE",
      condition |-> <<
          <<Atom("neck_flexion", "===", "true")>> >> ],
    [ id |-> "HYPERTENSION", priority |-> 8, urgency |-> "HIGH",
      condition |-> <<
          <<Atom("age_group", "===", "senior")>>,
          <<Atom("onset_speed", "===", "sudden")>>,
          <<Atom("seizures", "===", "mild"), Atom("eye_signs", "===", "true")>>,
          <<Atom("mobility_status", "===", "normal")>> >> ],
    [ id |-> "HEPATIC_ENCEPHALOPATHY", priority |-> 9, urgency |-> "MODERATE",
      condition |-> <<
          <<Atom("age_group", "===", "kitten"), Atom("age_group", "===", "adult")>>,
          <<Atom("seizures", "===", "mild")>>,
          <<Atom("mobility_status", "===", "wobbly")>> >> ],
    [ id |-> "HYPOCALCEMIA", priority |-> 10, urgency |-> "HIGH",
      condition |-> <<
          <<Atom("onset_speed", "===", "sudden")>>,
          <<Atom("seizures", "===", "mild")>>,
          <<Atom("mobility_status", "===", "wobbly")>> >> ],
    [ id |-> "BOTULISM_TICK_PARALYSIS", priority |-> 11, urgency |-> "HIGH",
      condition |-> <<
          <<Atom("mobility_status", "===", "paralyzed")>>,
          <<Atom("pain_signs", "===", "false")>>,
          <<Atom("onset_speed", "===", "sudden")>>,
          <<Atom("seizures", "===", "none")>> >> ],
    [ id |-> "NEURO_FIP", priority |-> 12, urgency |-> "HIGH",
      condition |-> <<
          <<Atom("age_group", "===", "kitten")>>,
          <<Atom("onset_speed", "===", "gradual")>>,
          <<Atom("mobility_status", "===", "wobbly"), Atom("seizures", "===", "mild")>> >> ],
    [ id |-> "TOXOPLASMOSIS", priority |-> 13, urgency |-> "MODERATE",
      condition |-> <<
          <<Atom("age_group", "!==", "senior")>>,
          <<Atom("onset_speed", "===", "gradual")>>,
          <<Atom("eye_signs", "===", "true")>> >> ],
    [ id |-> "OTITIS_INTERNA", priority |-> 14, urgency |-> "MODERATE",
      condition |-> <<
          <<Atom("ear_issues", "===", "true")>>,
          <<Atom("head_tilt", "===", "true"), Atom("mobility_status", "===", "wobbly")>> >> ],
    [ id |-> "NASOPHARYNGEAL_POLYP", priority |-> 15, urgency |-> "MODERATE",
      condition |-> <<
          <<Atom("age_group", "===", "kitten"), Atom("age_group", "===", "adult")>>,
          <<Atom("ear_issues", "===", "true")>>,
          <<Atom("head_tilt", "===", "true")>>,
          <<Atom("onset_speed", "===", "gradual")>> >> ],
    [ id |-> "MENINGITIS_ENCEPHALITIS", priority |-> 16, urgency |-> "HIGH",
      condition |-> <<
          <<Atom("onset_speed", "===", "sudden")>>,
          <<Atom("pain_signs", "===", "true")>>,
          <<Atom("seizures", "!==", "none")>> >> ],
    [ id |-> "BRAIN_TUMOR_MENINGIOMA", priority |-> 17, urgency |-> "HIGH",
      condition |-> <<
          <<Atom("age_group", "===", "senior")>>,
          <<Atom("onset_speed", "===", "gradual")>>,
          <<Atom("seizures", "===", "mild")>> >> ],
    [ id |-> "HIGH_GRADE_BRAIN_TUMOR", priority |-> 18, urgency |-> "HIGH",
      condition |-> <<
          <<Atom("age_group", "===", "senior")>>,
          <<Atom("onset_speed", "===", "gradual")>>,
          <<Atom("seizures", "===", "severe")>> >> ],
    [ id |-> "SPINAL_TUMOR_LYMPHOMA", priority |-> 19, urgency |-> "HIGH",
      condition |-> <<
          <<Atom("age_group", "===", "senior")>>,
          <<Atom("mobility_status", "===", "paralyzed")>>,
          <<Atom("onset_speed", "===", "gradual")>> >> ],
    [ id |-> "SPINAL_TUMOR_EARLY", priority |-> 20, urgency |-> "MODERATE",
      condition |-> <<
          <<Atom("age_group", "===", "senior")>>,
          <<Atom("mobility_status", "===", "wobbly")>>,
          <<Atom("pain_signs", "===", "false")>>,
          <<Atom("onset_speed", "===", "gradual")>> >> ],
    [ id |-> "HYDROCEPHALUS", priority |-> 21, urgency |-> "MODERATE",
      condition |-> <<
          <<Atom("age_group", "===", "kitten")>>,
          <<Atom("head_tilt", "===", "true")>>,
          <<Atom("seizures", "===", "mild")>>,
          <<Atom("onset_speed", "===", "gradual")>> >> ],
    [ id |-> "IVDD", priority |-> 22, urgency |-> "HIGH",
      condition |-> <<
          <<Atom("mobility_status", "!==", "normal")>>,
          <<Atom("pain_signs", "===", "true")>>,
          <<Atom("onset_speed", "===", "sudden")>> >> ],
    [ id |-> "FELINE_HYPERESTHESIA", priority |-> 23, urgency |-> "MODERATE",
      condition |-> <<
          <<Atom("age_group", "===", "adult")>>,
          <<Atom("seizures", "===", "mild")>>,
          <<Atom("pain_signs", "===", "true")>> >> ],
    [ id |-> "IDIOPATHIC_EPILEPSY", priority |-> 24, urgency |-> "MODERATE",
      condition |-> <<
          <<Atom("age_group", "===", "adult")>>,
          <<Atom("seizures", "===", "severe")>>,
          <<Atom("mobility_status", "===", "normal")>> >> ],
    [ id |-> "DIABETIC_NEUROPATHY", priority |-> 25, urgency |-> "MODERATE",
      condition |-> <<
          <<Atom("age_group", "===", "senior")>>,
          <<Atom("mobility_status", "===", "wobbly")>>,
          <<Atom("onset_speed", "===", "gradual")>> >> ],
    [ id |-> "CEREBELLAR_HYPOPLASIA", priority |-> 26, urgency |-> "LOW",
      condition |-> <<
          <<Atom("age_group", "===", "kitten")>>,
          <<Atom("mobility_status", "===", "wobbly")>>,
          <<Atom("onset_speed", "===", "gradual")>>,
          <<Atom("seizures", "===", "none")>> >> ],
    [ id |-> "ISCHEMIC_STROKE", priority |-> 27, urgency |-> "MODERATE",
      condition |-> <<
          <<Atom("age_group", "===", "senior")>>,
          <<Atom("onset_speed", "===", "sudden")>>,
          <<Atom("head_tilt", "===", "true")>>,
          <<Atom("ear_issues", "===", "false")>> >> ],
    [ id |-> "IDIOPATHIC_VESTIBULAR", priority |-> 28, urgency |-> "MODERATE",
      condition |-> <<
          <<Atom("onset_speed", "===", "sudden")>>,
          <<Atom("head_tilt", "===", "true"), Atom("eye_signs", "===", "true")>>,
          <<Atom("mobility_status", "===", "wobbly")>> >> ],
    [ id |-> "COGNITIVE_DYSFUNCTION", priority |-> 29, urgency |-> "LOW",
      condition |-> <<
          <<Atom("age_group", "===", "senior")>>,
          <<Atom("onset_speed", "===", "gradual")>>,
          <<Atom("seizures", "===", "none")>> >> ],
    [ id |-> "UNDETERMINED", priority |-> 30, urgency |-> "MODERATE",
      condition |-> << >> ]
  >>

toLowerCase ==
    [ TRAUMATIC_BRAIN_INJURY |-> "traumatic_brain_injury",
       SPINAL_FRACTURE |-> "spinal_fracture",
       GENERAL_TRAUMA |-> "general_trauma",
       SADDLE_THROMBUS |-> "saddle_thrombus",
       ACUTE_TOXICITY |-> "acute_toxicity",
       HYPOGLYCEMIA |-> "hypoglycemia",
       THIAMINE_DEFICIENCY |-> "thiamine_deficiency",
       HYPERTENSION |-> "hypertension",
       HEPATIC_ENCEPHALOPATHY |-> "hepatic_encephalopathy",
       HYPOCALCEMIA |-> "hypocalcemia",
       BOTULISM_TICK_PARALYSIS |-> "botulism_tick_paralysis",
       NEURO_FIP |-> "neuro_fip",
       TOXOPLASMOSIS |-> "toxoplasmosis",
       OTITIS_INTERNA |-> "otitis_interna",
       NASOPHARYNGEAL_POLYP |-> "nasopharyngeal_polyp",
       MENINGITIS_ENCEPHALITIS |-> "meningitis_encephalitis",
       BRAIN_TUMOR_MENINGIOMA |-> "brain_tumor_meningioma",
       HIGH_GRADE_BRAIN_TUMOR |-> "high_grade_brain_tumor",
       SPINAL_TUMOR_LYMPHOMA |-> "spinal_tumor_lymphoma",
       SPINAL_TUMOR_EARLY |-> "spinal_tumor_early",
       HYDROCEPHALUS |-> "hydrocephalus",
       IVDD |-> "ivdd",
       FELINE_HYPERESTHESIA |-> "feline_hyperesthesia",
       IDIOPATHIC_EPILEPSY |-> "idiopathic_epilepsy",
       DIABETIC_NEUROPATHY |-> "diabetic_neuropathy",
       CEREBELLAR_HYPOPLASIA |-> "cerebellar_hypoplasia",
       ISCHEMIC_STROKE |-> "ischemic_stroke",
       IDIOPATHIC_VESTIBULAR |-> "idiopathic_vestibular",
       COGNITIVE_DYSFUNCTION |-> "cognitive_dysfunction",
       UNDETERMINED |-> "undetermined",
       PRIOR_HEAD_INJURY |-> "prior_head_injury",
       UNCLASSIFIED |-> "unclassified" ]

\* Rules that a knowledge base handed to the constructors can contain besides
\* the shipped ones.  Their conditions read a property of inputs.history, which
\* no observation carries, so evaluating that comparison raises a TypeError:
\*   PRIOR_HEAD_INJURY  inputs.recent_trauma === true && inputs.history.length > 0
\*   UNCLASSIFIED       inputs.history.length >= 0   (meant as a catch-all)
customRules ==
  << [ id |-> "PRIOR_HEAD_INJURY", priority |-> 2, urgency |-> "HIGH",
       condition |-> <<
           <<Atom("recent_trauma", "===", "true")>>,
           <<Atom("history", ".length >", 0)>> >> ],
     [ id |-> "UNCLASSIFIED", priority |-> 30, urgency |-> "LOW",
       condition |-> <<
           <<Atom("history", ".length >=", 0)>> >> ] >>

knownRules == diagnosticRules \o customRules

\* The rule objects, by identifier.  The engines hold arrays of references to
\* these objects; no code writes to a rule object.
RuleById ==
    [ id \in { knownRules[i].id : i \in DOMAIN knownRules } |->
        knownRules[CHOOSE i \in DOMAIN knownRules : knownRules[i].id = id] ]

\* The array of rule objects that an array of references stands for
Deref(ids) == [ i \in DOMAIN ids |-> RuleById[ids[i]] ]

Refs(rules) == [ i \in DOMAIN rules |-> rules[i].id ]

\* rule.id.toLowerCase() for the identifiers of the knowledge base, and its
\* inverse String.prototype.toUpperCase on the lower-case names.
ToLowerCase(id) == toLowerCase[id]

ToUpperCase(name) == CHOOSE id \in DOMAIN toLowerCase : toLowerCase[id] = name

\* inputs[field] of an observation: undefined for a property it does not have
Get(in, field) == IF field \in DOMAIN in THEN in[field] ELSE Undefined

\* Evaluating a comparison raises a TypeError when it reads .length of undefined
AtomRaises(atom, in) ==
    atom.op \in { ".length >", ".length >=" } /\ Get(in, atom.field) = Undefined

\* The value of a comparison that does not raise: strict (in)equality, or a
\* test of the length of a string
AtomHolds(atom, in) ==
    CASE atom.op = "===" -> in[atom.field] = atom.value
      [] atom.op = "!==" -> in[atom.field] # atom.value
      [] atom.op = ".length >" -> Len(in[atom.field]) > atom.value
      [] atom.op = ".length >=" -> Len(in[atom.field]) >= atom.value

\* a || b || ...: the comparisons are evaluated left to right up to the first
\* that is true or raises
ClauseRaises(clause, in) ==
    \E a \in DOMAIN clause :
        /\ AtomRaises(clause[a], in)
        /\ \A b \in 1 .. a - 1 : AtomRaises(clause[b], in) \/ ~AtomHolds(clause[b], in)

ClauseHolds(clause, in) ==
    \E a \in DOMAIN clause :
        /\ ~AtomRaises(clause[a], in)
        /\ AtomHolds(clause[a], in)
        /\ \A b \in 1 .. a - 1 : ~AtomRaises(clause[b], in)

\* rule.condition(inputs), c1 && c2 && ...: the clauses are evaluated left to
\* right up to the first that is false or raises.
\* rule.condition(inputs) returns true
\* Fault variant of ConditionHolds: a predicate with no test at all (the
\* catch-all's return true) counts as false
ConditionHoldsSomeTest(rule, in) ==
    /\ rule.condition # << >>
    /\ \A c \in DOMAIN rule.condition : ClauseHolds(rule.condition[c], in)

ConditionHolds(rule, in) ==
    \A c \in DOMAIN rule.condition : ClauseHolds(rule.condition[c], in)

\* rule.condition(inputs) throws
ConditionRaises(rule, in) ==
    \E c \in DOMAIN rule.condition :
        /\ ClauseRaises(rule.condition[c], in)
        /\ \A d \in 1 .. c - 1 : ClauseHolds(rule.condition[d], in)

\* rule.condition.toString().includes(field)
TextIncludesField(rule, field) ==
    \E c \in DOMAIN rule.condition :
        \E a \in DOMAIN rule.condition[c] : rule.condition[c][a].field = field

-----------------------------------------------------------------------------
(* Input validator: validateCompleteInputs, calculateInputCompleteness *)

Err(kind, field) == [ kind |-> kind, field |-> field ]

\* A forEach that pushes one entry per element passing a test: the entries
\* made[e] of the elements e of seq, in order, for which passes[e] holds.
PushEach(seq, passes, made) ==
    LET Passes(e) == passes[e]
        kept == SelectSeq(seq, Passes)
    IN  [ i \in DOMAIN kept |-> made[kept[i]] ]

\* The elements themselves (matchedFields.push(field), a count of fields)
Same(seq) == [ e \in Range(seq) |-> e ]

\* Fault variant of IsNonBoolean: a loose type test that lets strings through
IsNonBooleanLoose(field, in) ==
    in[field] # Undefined /\ TypeOf(in[field]) \notin { "boolean", "string" }

IsMissingRequired(field, in) == Falsy(in[field]) \/ in[field] = ""
IsUnsetBoolean(field, in) == in[field] = Undefined
IsNonBoolean(field, in) == in[field] # Undefined /\ TypeOf(in[field]) # "boolean"

MissingError(field) == Err("Missing required field", field)
UnsetError(field) == Err("Boolean field must be explicitly set (true/false)", field)
NonBooleanError(field) == Err("Field must be boolean (true/false)", field)

\* One enumeration check: if (inputs.f && !valid.includes(inputs.f)) errors.push(...)
EnumError(in, field, valid, kind) ==
    IF ~Falsy(in[field]) /\ ~Includes(valid, in[field])
    THEN << Err(kind, field) >> ELSE << >>

\* Fault variant of calculateInputCompleteness: the sign fields are counted by
\* truthiness (if (inputs[field])), so a sign answered false counts as absent
calculateInputCompletenessByTruthiness(in) ==
    LET totalFields == Len(requiredFields) + Len(booleanFields)
        isTruthy == [ field \in Fields |-> ~Falsy(in[field]) ]
        completedFields ==
            Len(PushEach(requiredFields, isTruthy, Same(requiredFields)))
            + Len(PushEach(booleanFields, isTruthy, Same(booleanFields)))
        percentage == (200 * completedFields + totalFields) \div (2 * totalFields)
    IN  [ completed |-> completedFields,
          total |-> totalFields,
          percentage |-> percentage,
          missing |-> totalFields - completedFields ]

calculateInputCompleteness(in) ==
    LET totalFields == Len(requiredFields) + Len(booleanFields)
        isCompleted == [ field \in Fields |-> ~Falsy(in[field]) /\ in[field] # "" ]
        isSet == [ field \in Fields |-> in[field] # Undefined ]
        completedFields ==
            Len(PushEach(requiredFields, isCompleted, Same(requiredFields)))
            + Len(PushEach(booleanFields, isSet, Same(booleanFields)))
        \* Math.round((completedFields / totalFields) * 100), a non-negative quotient
        percentage == (200 * completedFields + totalFields) \div (2 * totalFields)
    IN  [ completed |-> completedFields,
          total |-> totalFields,
          percentage |-> percentage,
          missing |-> totalFields - completedFields ]

validateCompleteInputs(in) ==
    LET errors ==
            PushEach(requiredFields,
                     [ field \in Fields |-> IsMissingRequired(field, in) ],
                     [ field \in Fields |-> MissingError(field) ])
            \o PushEach(booleanFields,
                        [ field \in Fields |-> IsUnsetBoolean(field, in) ],
                        [ field \in Fields |-> UnsetError(field) ])
            \o EnumError(in, "age_group", validAgeGroups, "Invalid age group")
            \o EnumError(in, "onset_speed", validOnset, "Invalid onset speed")
            \o EnumError(in, "mobility_status", validMobility, "Invalid mobility status")
            \o EnumError(in, "seizures", validSeizures, "Invalid seizure status")
            \o PushEach(booleanFields,
                        [ field \in Fields |-> IsNonBoolean(field, in) ],
                        [ field \in Fields |-> NonBooleanError(field) ])
    IN  [ isValid |-> Len(errors) = 0,
          errors |-> errors,
          completeness |-> calculateInputCompleteness(in) ]

-----------------------------------------------------------------------------
(* Weighted scoring: calculateWeightedScore and its helpers *)

\* The base of the priority weight: Math.max(0, 31 - rule.priority) * 10
PriorityBase == 31

PointsPerCondition == 50

Max(a, b) == IF a >= b THEN a ELSE b

\* Fault variant of analyzeRuleComplexity: the floor of one condition is missing
analyzeRuleComplexityWithoutFloor(rule, in) ==
    LET mentioned == [ field \in Fields |-> TextIncludesField(rule, field) ]
    IN  Len(PushEach(inputFields, mentioned, Same(inputFields)))

\* analyzeRuleComplexity(rule, inputs).conditionsMatched: the number of input
\* fields whose name occurs in the text of the condition, at least 1.
analyzeRuleComplexity(rule, in) ==
    LET mentioned == [ field \in Fields |-> TextIncludesField(rule, field) ]
        matchedFields == PushEach(inputFields, mentioned, Same(inputFields))
    IN  Max(1, Len(matchedFields))

\* Fault variant of getSpecificityBonus: the THIAMINE_DEFICIENCY entry is missing
getSpecificityBonusWithoutThiamine(ruleId) ==
    CASE ruleId = "TRAUMATIC_BRAIN_INJURY" -> 150
      [] ruleId = "SADDLE_THROMBUS" -> 120
      [] ruleId = "ACUTE_TOXICITY" -> 110
      [] OTHER -> 0

\* getSpecificityBonus(ruleId).bonus
\* Fault variant of getSpecificityBonus: HYDROCEPHALUS is given the bonus of
\* TRAUMATIC_BRAIN_INJURY
getSpecificityBonusForHydrocephalus(ruleId) ==
    IF ruleId \in { "TRAUMATIC_BRAIN_INJURY", "HYDROCEPHALUS" } THEN 150
    ELSE IF ruleId = "SADDLE_THROMBUS" THEN 120
    ELSE IF ruleId = "ACUTE_TOXICITY" THEN 110
    ELSE IF ruleId = "THIAMINE_DEFICIENCY" THEN 100
    ELSE 0

getSpecificityBonus(ruleId) ==
    CASE ruleId = "THIAMINE_DEFICIENCY" -> 100
      [] ruleId = "TRAUMATIC_BRAIN_INJURY" -> 150
      [] ruleId = "SADDLE_THROMBUS" -> 120
      [] ruleId = "ACUTE_TOXICITY" -> 110
      [] OTHER -> 0

\* Fault variant of getSeverityBoost: only emergencies are boosted
getSeverityBoostEmergencyOnly(urgency) ==
    IF urgency = "EMERGENCY" THEN 100 ELSE 0

\* getSeverityBoost(urgency): severityMap[urgency] || 0
getSeverityBoost(urgency) ==
    CASE urgency = "EMERGENCY" -> 100
      [] urgency = "HIGH" -> 50
      [] urgency = "MODERATE" -> 25
      [] urgency = "LOW" -> 0
      [] OTHER -> 0

\* Fault variant of calculateWeightedScore: the priority weight is not inverted,
\* a larger priority number earns more points
calculateWeightedScoreDirectPriority(rule, in) ==
    LET priority == rule.priority * 10
        complexity == analyzeRuleComplexity(rule, in) * PointsPerCondition
        specificity == getSpecificityBonus(rule.id)
        severity == getSeverityBoost(rule.urgency)
    IN  [ priority |-> priority,
          complexity |-> complexity,
          specificity |-> specificity,
          severity |-> severity,
          total |-> priority + complexity + specificity + severity ]

\* Fault variant of calculateWeightedScore: the priority weight is left out of
\* the total
calculateWeightedScoreWithoutPriority(rule, in) ==
    LET priority == Max(0, PriorityBase - rule.priority) * 10
        complexity == analyzeRuleComplexity(rule, in) * PointsPerCondition
        specificity == getSpecificityBonus(rule.id)
        severity == getSeverityBoost(rule.urgency)
    IN  [ priority |-> priority,
          complexity |-> complexity,
          specificity |-> specificity,
          severity |-> severity,
          total |-> complexity + specificity + severity ]

calculateWeightedScore(rule, in) ==
    LET priority == Max(0, PriorityBase - rule.priority) * 10
        complexity == analyzeRuleComplexity(rule, in) * PointsPerCondition
        specificity == getSpecificityBonus(rule.id)
        severity == getSeverityBoost(rule.urgency)
    IN  [ priority |-> priority,
          complexity |-> complexity,
          specificity |-> specificity,
          severity |-> severity,
          total |-> priority + complexity + specificity + severity ]

-----------------------------------------------------------------------------
(* evaluateAllRules: every rule is tested, the matches are sorted by score *)

\* Array.prototype.sort(compare) for a consistent comparator.  The sort is stable
\* (ECMAScript 2019): an element ends up behind exactly the elements that compare
\* before it and the elements before it in the array that compare equal to it.
\* compare[j][i] is the comparator's value for (arr[j], arr[i]).
StableSort(arr, compare) ==
    LET Before(j, i) ==
            \/ compare[j][i] < 0
            \/ compare[j][i] = 0 /\ j < i
        Position(i) == Cardinality({ j \in DOMAIN arr : Before(j, i) }) + 1
    IN  [ p \in DOMAIN arr |-> arr[CHOOSE i \in DOMAIN arr : Position(i) = p] ]

\* Fault variant of the comparator: the operands swapped, an ascending sort
ByScoreAscending(a, b) == a.score.total - b.score.total

\* (a, b) => b.score.total - a.score.total
ByScoreDescending(a, b) == b.score.total - a.score.total

\* Fault variant of the loop: the bound is one short, the last rule never tested
CollectMatchesButLast(rules, in) ==
    LET Matches(i) == i < Len(rules) /\ ConditionHolds(rules[i], in)
        matched == SelectSeq([ i \in DOMAIN rules |-> i ], Matches)
    IN  [ k \in DOMAIN matched |->
            [ rule |-> rules[matched[k]],
              priority |-> rules[matched[k]].priority,
              ruleIndex |-> matched[k] - 1,
              score |-> calculateWeightedScore(rules[matched[k]], in) ] ]

\* Fault variant of the loop: it stops at the first rule whose condition holds
CollectFirstMatch(rules, in) ==
    LET Matches(i) ==
            /\ ConditionHolds(rules[i], in)
            /\ \A j \in 1 .. i - 1 : ~ConditionHolds(rules[j], in)
        matched == SelectSeq([ i \in DOMAIN rules |-> i ], Matches)
    IN  [ k \in DOMAIN matched |->
            [ rule |-> rules[matched[k]],
              priority |-> rules[matched[k]].priority,
              ruleIndex |-> matched[k] - 1,
              score |-> calculateWeightedScore(rules[matched[k]], in) ] ]

\* The loop over this.sortedRules: one match per rule whose condition holds,
\* in table order
\* Fault variant of the loop: the try encloses the whole loop, so the rules
\* after one whose condition raises are never tested
CollectMatchesUntilRaise(rules, in) ==
    LET Matches(i) ==
            /\ \A j \in 1 .. i : ~ConditionRaises(rules[j], in)
            /\ ConditionHolds(rules[i], in)
        matched == SelectSeq([ i \in DOMAIN rules |-> i ], Matches)
    IN  [ k \in DOMAIN matched |->
            [ rule |-> rules[matched[k]],
              priority |-> rules[matched[k]].priority,
              ruleIndex |-> matched[k] - 1,
              score |-> calculateWeightedScore(rules[matched[k]], in) ] ]

\* try { isMatch = rule.condition(inputs); if (isMatch) matches.push(...) }
\* catch (error) { continue }
CollectMatches(rules, in) ==
    LET Matches(i) ==
            IF ConditionRaises(rules[i], in) THEN FALSE
            ELSE ConditionHolds(rules[i], in)
        matched == SelectSeq([ i \in DOMAIN rules |-> i ], Matches)
    IN  [ k \in DOMAIN matched |->
            [ rule |-> rules[matched[k]],
              priority |-> rules[matched[k]].priority,
              ruleIndex |-> matched[k] - 1,
              score |-> calculateWeightedScore(rules[matched[k]], in) ] ]

\* Fault variant of evaluateAllRules: the matches are left in table order
evaluateAllRulesUnsorted(rules, in) == CollectMatches(rules, in)

evaluateAllRules(rules, in) ==
    LET matches == CollectMatches(rules, in)
    IN  StableSort(matches,
                   [ j \in DOMAIN matches |->
                       [ i \in DOMAIN matches |-> ByScoreDescending(matches[j], matches[i]) ] ])

\* allMatches.slice(1).map(...)
AlternativeOf(match) ==
    [ priority |-> match.priority, id |-> match.rule.id, score |-> match.score.total ]

createEnhancedDiagnosisResult(rules, bestMatch, in, allMatches) ==
    [ ruleId |-> bestMatch.rule.id,
      priority |-> bestMatch.rule.priority,
      urgency |-> bestMatch.rule.urgency,
      rulesEvaluated |-> Len(rules),
      totalRules |-> Len(rules),
      totalMatches |-> Len(allMatches),
      winningScore |-> bestMatch.score,
      alternativeMatches |->
          [ k \in 1 .. Len(allMatches) - 1 |-> AlternativeOf(allMatches[k + 1]) ],
      inputs |-> in ]

-----------------------------------------------------------------------------
(* Forward-chaining engine: rule compilation *)

\* Confidence values are kept in hundredths (0.95 is 95).  A compiled rule's
\* originalRule is the rule of the knowledge base with the same id (RuleById);
\* an intermediate rule has none (isDiagnosticRule is FALSE).
InferenceRule(id, conditions, conclusions, confidence) ==
    [ id |-> id, conditions |-> conditions, conclusions |-> conclusions,
      confidence |-> confidence, isDiagnosticRule |-> FALSE ]

\* The intermediate inference rules pushed first by convertToForwardChainingRules
intermediateRules ==
  << InferenceRule("DETECT_TRAUMA_SIGNS", << "recent_trauma" >>,
                   << "has_trauma_history" >>, 90),
     InferenceRule("DETECT_SEVERE_NEURO", << "seizures_severe" >>,
                   << "severe_neurological_dysfunction" >>, 95),
     InferenceRule("DETECT_MILD_NEURO", << "seizures_mild" >>,
                   << "mild_neurological_dysfunction" >>, 80),
     InferenceRule("DETECT_PARALYSIS", << "mobility_paralyzed" >>,
                   << "has_paralysis", "motor_dysfunction", "mobility_abnormal" >>, 95),
     InferenceRule("DETECT_ATAXIA", << "mobility_wobbly" >>,
                   << "has_ataxia", "coordination_problems", "mobility_abnormal" >>, 90),
     InferenceRule("DETECT_PAIN", << "pain_signs" >>,
                   << "experiencing_pain" >>, 85),
     InferenceRule("DETECT_VASCULAR_COMPROMISE", << "cold_limbs", "has_paralysis" >>,
                   << "vascular_compromise", "circulation_problems" >>, 90),
     InferenceRule("DETECT_METABOLIC_SIGNS", << "neck_flexion" >>,
                   << "metabolic_dysfunction", "thiamine_deficiency_signs" >>, 95),
     InferenceRule("SENIOR_RISK_FACTORS", << "age_senior" >>,
                   << "increased_tumor_risk", "degenerative_risk" >>, 70),
     InferenceRule("KITTEN_RISK_FACTORS", << "age_kitten" >>,
                   << "metabolic_vulnerability", "developmental_risk",
                      "age_young_or_adult" >>, 80),
     InferenceRule("ADULT_RISK_FACTORS", << "age_adult" >>,
                   << "age_young_or_adult" >>, 80),
     InferenceRule("ACUTE_ONSET_PATTERN", << "onset_sudden" >>,
                   << "acute_condition" >>, 80),
     InferenceRule("CHRONIC_ONSET_PATTERN", << "onset_gradual" >>,
                   << "chronic_condition" >>, 80) >>

\* conditionStr.includes("<field> <op> <value>")
TextIncludesComparison(rule, f, o, v) ==
    \E c \in DOMAIN rule.condition :
        \E a \in DOMAIN rule.condition[c] : rule.condition[c][a] = Atom(f, o, v)

\* conditionStr.includes('||')
TextIncludesOr(rule) ==
    \E c \in DOMAIN rule.condition : Len(rule.condition[c]) > 1

\* if (conditionStr.includes(...)) conditions.push(fact)
PushIf(test, fact) == IF test THEN << fact >> ELSE << >>

\* Fault variant of extractConditionsFromRule: a predicate in which no known
\* comparison is found gets a condition that no rule concludes
extractConditionsFromRuleMarkingUnknown(rule) ==
    LET conditions ==
            LET Has(f, o, v) == TextIncludesComparison(rule, f, o, v)
                hasKittenOrAdult ==
                    /\ Has("age_group", "===", "kitten")
                    /\ Has("age_group", "===", "adult")
                    /\ TextIncludesOr(rule)
            IN  PushIf(Has("recent_trauma", "===", "true"), "recent_trauma")
                \o PushIf(Has("seizures", "===", "severe"), "seizures_severe")
                \o PushIf(Has("seizures", "===", "mild"), "seizures_mild")
                \o PushIf(Has("mobility_status", "===", "paralyzed"), "mobility_paralyzed")
                \o PushIf(Has("mobility_status", "===", "wobbly"), "mobility_wobbly")
                \o PushIf(Has("mobility_status", "!==", "normal"), "mobility_abnormal")
                \o PushIf(Has("pain_signs", "===", "true"), "pain_signs")
                \o PushIf(Has("cold_limbs", "===", "true"), "cold_limbs")
                \o PushIf(Has("neck_flexion", "===", "true"), "neck_flexion")
                \o PushIf(Has("eye_signs", "===", "true"), "eye_signs")
                \o PushIf(Has("head_tilt", "===", "true"), "head_tilt")
                \o PushIf(Has("ear_issues", "===", "true"), "ear_issues")
                \o (IF hasKittenOrAdult
                    THEN << "age_young_or_adult" >>
                    ELSE PushIf(Has("age_group", "===", "senior"), "age_senior")
                         \o PushIf(Has("age_group", "===", "kitten"), "age_kitten")
                         \o PushIf(Has("age_group", "===", "adult"), "age_adult"))
                \o PushIf(Has("onset_speed", "===", "sudden"), "onset_sudden")
                \o PushIf(Has("onset_speed", "===", "gradual"), "onset_gradual")
    IN  IF conditions = << >> THEN << "unknown_pattern" >> ELSE conditions

extractConditionsFromRule(rule) ==
    LET Has(f, o, v) == TextIncludesComparison(rule, f, o, v)
        hasKittenOrAdult ==
            /\ Has("age_group", "===", "kitten")
            /\ Has("age_group", "===", "adult")
            /\ TextIncludesOr(rule)
    IN  PushIf(Has("recent_trauma", "===", "true"), "recent_trauma")
        \o PushIf(Has("seizures", "===", "severe"), "seizures_severe")
        \o PushIf(Has("seizures", "===", "mild"), "seizures_mild")
        \o PushIf(Has("mobility_status", "===", "paralyzed"), "mobility_paralyzed")
        \o PushIf(Has("mobility_status", "===", "wobbly"), "mobility_wobbly")
        \o PushIf(Has("mobility_status", "!==", "normal"), "mobility_abnormal")
        \o PushIf(Has("pain_signs", "===", "true"), "pain_signs")
        \o PushIf(Has("cold_limbs", "===", "true"), "cold_limbs")
        \o PushIf(Has("neck_flexion", "===", "true"), "neck_flexion")
        \o PushIf(Has("eye_signs", "===", "true"), "eye_signs")
        \o PushIf(Has("head_tilt", "===", "true"), "head_tilt")
        \o PushIf(Has("ear_issues", "===", "true"), "ear_issues")
        \o (IF hasKittenOrAdult
            THEN << "age_young_or_adult" >>
            ELSE PushIf(Has("age_group", "===", "senior"), "age_senior")
                 \o PushIf(Has("age_group", "===", "kitten"), "age_kitten")
                 \o PushIf(Has("age_group", "===", "adult"), "age_adult"))
        \o PushIf(Has("onset_speed", "===", "sudden"), "onset_sudden")
        \o PushIf(Has("onset_speed", "===", "gradual"), "onset_gradual")

\* calculateRuleConfidence, in hundredths
\* Fault variant of calculateRuleConfidence: within the third band the
\* confidence rises with the priority number (0.8 + (priority - 16) * 0.01)
calculateRuleConfidenceRisingInBand(rule) ==
    IF rule.priority <= 5 THEN 95 - (rule.priority - 1)
    ELSE IF rule.priority <= 15 THEN 90 - (rule.priority - 6)
    ELSE IF rule.priority <= 25 THEN 80 + (rule.priority - 16)
    ELSE 70 - (rule.priority - 26) * 2

calculateRuleConfidence(rule) ==
    IF rule.priority <= 5 THEN 95 - (rule.priority - 1)
    ELSE IF rule.priority <= 15 THEN 90 - (rule.priority - 6)
    ELSE IF rule.priority <= 25 THEN 80 - (rule.priority - 16)
    ELSE 70 - (rule.priority - 26) * 2

\* `diagnosis_${rule.id.toLowerCase()}`
DiagnosisFact(ruleId) == "diagnosis_" \o ToLowerCase(ruleId)

CompileRule(rule) ==
    [ id |-> rule.id,
      conditions |-> extractConditionsFromRule(rule),
      conclusions |-> << DiagnosisFact(rule.id) >>,
      confidence |-> calculateRuleConfidence(rule),
      isDiagnosticRule |-> TRUE ]

\* Fault variant of convertToForwardChainingRules: the compiled diagnostic rules
\* are pushed before the intermediate rules
convertToForwardChainingRulesDiagnosticFirst(priorityRules) ==
    [ i \in DOMAIN priorityRules |-> CompileRule(priorityRules[i]) ] \o intermediateRules

convertToForwardChainingRules(priorityRules) ==
    intermediateRules \o [ i \in DOMAIN priorityRules |-> CompileRule(priorityRules[i]) ]

\* The inference rule objects, by identifier: the engine holds an array of
\* references to them, built once by the constructor.
InferenceRuleById ==
    LET all == convertToForwardChainingRules(knownRules)
    IN  [ id \in { all[i].id : i \in DOMAIN all } |->
            all[CHOOSE i \in DOMAIN all : all[i].id = id] ]

DerefInference(ids) == [ i \in DOMAIN ids |-> InferenceRuleById[ids[i]] ]

-----------------------------------------------------------------------------
(* Forward-chaining engine: one evaluation *)

\* The facts a Set holds, as the sequence of its elements in insertion order.
SetAdd(set, fact) == IF Includes(set, fact) THEN set ELSE Append(set, fact)

RECURSIVE SetAddAll(_, _)
SetAddAll(set, facts) ==
    IF facts = << >> THEN set ELSE SetAddAll(SetAdd(set, Head(facts)), Tail(facts))

convertInputsToFacts(in) ==
    PushIf(in["recent_trauma"] = JsTrue, "recent_trauma")
    \o PushIf(in["pain_signs"] = JsTrue, "pain_signs")
    \o PushIf(in["head_tilt"] = JsTrue, "head_tilt")
    \o PushIf(in["cold_limbs"] = JsTrue, "cold_limbs")
    \o PushIf(in["neck_flexion"] = JsTrue, "neck_flexion")
    \o PushIf(in["ear_issues"] = JsTrue, "ear_issues")
    \o PushIf(in["eye_signs"] = JsTrue, "eye_signs")
    \o PushIf(in["age_group"] = "senior", "age_senior")
    \o PushIf(in["age_group"] = "kitten", "age_kitten")
    \o PushIf(in["age_group"] = "adult", "age_adult")
    \o PushIf(in["onset_speed"] = "sudden", "onset_sudden")
    \o PushIf(in["onset_speed"] = "gradual", "onset_gradual")
    \o PushIf(in["mobility_status"] = "paralyzed", "mobility_paralyzed")
    \o PushIf(in["mobility_status"] = "wobbly", "mobility_wobbly")
    \o PushIf(in["mobility_status"] = "normal", "mobility_normal")
    \o PushIf(in["seizures"] = "severe", "seizures_severe")
    \o PushIf(in["seizures"] = "mild", "seizures_mild")
    \o PushIf(in["seizures"] = "none", "seizures_none")

\* Fault variant of ruleConditionsSatisfied: rule.conditions.some in place of
\* rule.conditions.every
ruleConditionsSatisfiedBySome(rule, workingMemory) ==
    \E c \in DOMAIN rule.conditions : Includes(workingMemory, rule.conditions[c])

ruleConditionsSatisfied(rule, workingMemory) ==
    \A c \in DOMAIN rule.conditions : Includes(workingMemory, rule.conditions[c])

\* The cap on the number of scans: while (changed && iteration < 10)
MaxIterations == 10

\* The body of the for loop over this.forwardChainingRules for one rule.
\* st = [workingMemory, appliedRules, changed]
\* Fault variant of ApplyRule: the loop over the conclusions stops after the
\* first one (a break in place of the end of the if)
ApplyRuleFirstConclusionOnly(rule, iteration, st) ==
    LET fires == /\ ruleConditionsSatisfied(rule, st.workingMemory)
                 /\ ~\E k \in DOMAIN st.appliedRules : st.appliedRules[k].id = rule.id
        newFactsAdded == ~Includes(st.workingMemory, rule.conclusions[1])
    IN  IF fires
        THEN [ workingMemory |-> SetAdd(st.workingMemory, rule.conclusions[1]),
               appliedRules |-> Append(st.appliedRules,
                   [ id |-> rule.id, confidence |-> rule.confidence,
                     isDiagnosticRule |-> rule.isDiagnosticRule,
                     appliedInIteration |-> iteration ]),
               changed |-> st.changed \/ newFactsAdded ]
        ELSE st

ApplyRule(rule, iteration, st) ==
    LET fires == /\ ruleConditionsSatisfied(rule, st.workingMemory)
                 /\ ~\E k \in DOMAIN st.appliedRules : st.appliedRules[k].id = rule.id
        newFactsAdded ==
            \E c \in DOMAIN rule.conclusions :
                ~Includes(st.workingMemory, rule.conclusions[c])
    IN  IF fires
        THEN [ workingMemory |-> SetAddAll(st.workingMemory, rule.conclusions),
               appliedRules |-> Append(st.appliedRules,
                   [ id |-> rule.id, confidence |-> rule.confidence,
                     isDiagnosticRule |-> rule.isDiagnosticRule,
                     appliedInIteration |-> iteration ]),
               changed |-> st.changed \/ newFactsAdded ]
        ELSE st

\* One scan: the rules lo .. hi applied in order, starting from st.  The range
\* is split in halves, and the first half is evaluated (its changed flag is
\* read) before the second is entered, only to keep TLC's evaluation shallow:
\* the order of application is lo, lo + 1, ..., hi.
RECURSIVE ScanRange(_, _, _, _, _)
ScanRange(fcRules, lo, hi, iteration, st) ==
    IF lo > hi THEN st
    ELSE IF lo = hi THEN ApplyRule(fcRules[lo], iteration, st)
    ELSE LET mid == (lo + hi) \div 2
             first == ScanRange(fcRules, lo, mid, iteration, st)
         IN  IF first.changed \in BOOLEAN
             THEN ScanRange(fcRules, mid + 1, hi, iteration, first)
             ELSE first

RECURSIVE ChainFrom(_, _, _)
ChainFrom(fcRules, iteration, st) ==
    IF st.changed /\ iteration < MaxIterations
    THEN ChainFrom(fcRules, iteration + 1,
             ScanRange(fcRules, 1, Len(fcRules), iteration + 1,
                       [ st EXCEPT !.changed = FALSE ]))
    ELSE [ derivedFacts |-> st.workingMemory,
           appliedRules |-> st.appliedRules,
           iterations |-> iteration ]

forwardChaining(fcRules, initialFacts) ==
    ChainFrom(fcRules, 0,
        [ workingMemory |-> initialFacts, appliedRules |-> << >>, changed |-> TRUE ])

\* fact.startsWith('diagnosis_')
IsDiagnosisFact(fact) == Len(fact) >= 10 /\ SubSeq(fact, 1, 10) = "diagnosis_"

\* diagnosticFact.replace('diagnosis_', '').toUpperCase()
RuleIdOfFact(fact) == ToUpperCase(SubSeq(fact, 11, Len(fact)))

fcCreateDiagnosisResult(rule, inferenceResult) ==
    [ ruleId |-> rule.id,
      priority |-> rule.priority,
      urgency |-> rule.urgency,
      confidence |-> calculateRuleConfidence(rule),
      inferenceMethod |-> "Forward Chaining",
      derivedFacts |-> inferenceResult.derivedFacts,
      appliedRules |-> [ k \in DOMAIN inferenceResult.appliedRules |->
                            inferenceResult.appliedRules[k].id ],
      iterations |-> inferenceResult.iterations,
      standardFallback |-> FALSE ]

createUndeterminedDiagnosis(inferenceResult) ==
    [ ruleId |-> "UNDETERMINED",
      priority |-> 29,
      urgency |-> "MODERATE",
      confidence |-> 60,
      inferenceMethod |-> "Forward Chaining",
      derivedFacts |-> inferenceResult.derivedFacts,
      appliedRules |-> [ k \in DOMAIN inferenceResult.appliedRules |->
                            inferenceResult.appliedRules[k].id ],
      iterations |-> inferenceResult.iterations,
      standardFallback |-> TRUE ]

\* Fault variant of BestFrom: the confidence comparison is dropped
\* (if (appliedRule) { ... }), so the last diagnosis fact wins
RECURSIVE BestFromLastApplied(_, _, _, _)
BestFromLastApplied(diagnosticFacts, appliedRules, i, best) ==
    IF i > Len(diagnosticFacts) THEN best
    ELSE LET ruleId == RuleIdOfFact(diagnosticFacts[i])
             found == { k \in DOMAIN appliedRules : appliedRules[k].id = ruleId }
             appliedRule == appliedRules[CHOOSE k \in found : \A j \in found : k <= j]
         IN  BestFromLastApplied(diagnosticFacts, appliedRules, i + 1,
                 IF found # {}
                 THEN [ bestDiagnosis |-> appliedRule,
                        highestConfidence |-> appliedRule.confidence ]
                 ELSE best)

\* The loop of selectBestDiagnosis over diagnosticFacts from index i on;
\* best = [bestDiagnosis, highestConfidence]
RECURSIVE BestFrom(_, _, _, _)
BestFrom(diagnosticFacts, appliedRules, i, best) ==
    IF i > Len(diagnosticFacts) THEN best
    ELSE LET ruleId == RuleIdOfFact(diagnosticFacts[i])
             found == { k \in DOMAIN appliedRules : appliedRules[k].id = ruleId }
             appliedRule == appliedRules[CHOOSE k \in found : \A j \in found : k <= j]
         IN  BestFrom(diagnosticFacts, appliedRules, i + 1,
                 IF found # {} /\ appliedRule.confidence > best.highestConfidence
                 THEN [ bestDiagnosis |-> appliedRule,
                        highestConfidence |-> appliedRule.confidence ]
                 ELSE best)

selectBestDiagnosis(inferenceResult) ==
    LET diagnosticFacts == SelectSeq(inferenceResult.derivedFacts, IsDiagnosisFact)
        best == BestFrom(diagnosticFacts, inferenceResult.appliedRules, 1,
                         [ bestDiagnosis |-> Null, highestConfidence |-> 0 ])
    IN  IF Len(diagnosticFacts) = 0
        THEN createUndeterminedDiagnosis(inferenceResult)
        ELSE IF best.bestDiagnosis # Null /\ best.bestDiagnosis.isDiagnosticRule
             THEN fcCreateDiagnosisResult(RuleById[best.bestDiagnosis.id], inferenceResult)
             ELSE createUndeterminedDiagnosis(inferenceResult)

-----------------------------------------------------------------------------
(* Observations handed to the engines *)

categoricalFields == Range(requiredFields)

GoodValues(field) ==
    CASE field = "age_group" -> Range(validAgeGroups)
      [] field = "onset_speed" -> Range(validOnset)
      [] field = "mobility_status" -> Range(validMobility)
      [] field = "seizures" -> Range(validSeizures)
      [] OTHER -> { JsTrue, JsFalse }

\* What a caller can put in a field instead: nothing (undefined), an empty
\* selection, a string outside the enumeration; for a sign field nothing or a
\* string where a boolean is expected.
BadValues(field) ==
    IF field \in categoricalFields THEN { Undefined, "", "bogus" }
    ELSE { Undefined, "yes" }

\* The observations whose fields in bad hold a bad value and whose other
\* fields f hold a value of good[f].
ObservationsWith(good, bad) ==
    LET D(f) == IF f \in bad THEN BadValues(f) ELSE good[f]
    IN  [ age_group : D("age_group"), onset_speed : D("onset_speed"),
          mobility_status : D("mobility_status"), seizures : D("seizures"),
          eye_signs : D("eye_signs"), pain_signs : D("pain_signs"),
          head_tilt : D("head_tilt"), recent_trauma : D("recent_trauma"),
          cold_limbs : D("cold_limbs"), neck_flexion : D("neck_flexion"),
          ear_issues : D("ear_issues") ]

AllGood == [ f \in Fields |-> GoodValues(f) ]

BadFieldSets == { S \in SUBSET Fields : Cardinality(S) <= MaxBad }

\* All 6912 valid observations
ValidObservations == ObservationsWith(AllGood, {})

\* The valid observations and those with at most MaxBad bad fields
Observations == UNION { ObservationsWith(AllGood, S) : S \in BadFieldSets }

\* The observations of a session: a kitten with sudden severe seizures and
\* normal mobility, with or without recent trauma, no other sign
SessionGood ==
    [ f \in Fields |->
        CASE f = "age_group" -> { "kitten" }
          [] f = "onset_speed" -> { "sudden" }
          [] f = "mobility_status" -> { "normal" }
          [] f = "seizures" -> { "severe" }
          [] f = "recent_trauma" -> { JsTrue, JsFalse }
          [] OTHER -> { JsFalse } ]

\* ... complete, or with one field missing, empty or of the wrong kind
SessionObservations ==
    ObservationsWith(SessionGood, {})
    \cup UNION { ObservationsWith(SessionGood, { f }) : f \in Fields }

\* The observations handed to the forward-chaining engine in a session:
\* complete, or with a bad age group or a bad recent_trauma answer
ForwardSessionObservations ==
    ObservationsWith(SessionGood, {})
    \cup ObservationsWith(SessionGood, { "age_group" })
    \cup ObservationsWith(SessionGood, { "recent_trauma" })

\* The observations of the step-by-step forward-chaining evaluations: every
\* combination of the categorical fields, with or without recent trauma, cold
\* limbs and neck ventroflexion, no other sign
ChainGood ==
    [ f \in Fields |->
        IF f \in { "eye_signs", "pain_signs", "head_tilt", "ear_issues" }
        THEN { JsFalse } ELSE GoodValues(f) ]

ChainObservations == ObservationsWith(ChainGood, {})

-----------------------------------------------------------------------------
(* Rule tables handed to the constructors *)

\* README, Clinical Categories: Tier 1 is the critical / trauma rules 1-5
CriticalTier == SubSeq(diagnosticRules, 1, 5)

Reverse(s) == [ i \in DOMAIN s |-> s[Len(s) + 1 - i] ]

\* The critical tier with the two rules that read inputs.history, handed over
\* out of priority order
GuardedTier == << customRules[2] >> \o CriticalTier \o << customRules[1] >>

RuleTables == { diagnosticRules, CriticalTier, Reverse(CriticalTier), GuardedTier }

\* (a, b) => a.priority - b.priority
\* Fault variant of the constructor's comparator: b.priority - a.priority
ByPriorityDescending(a, b) == b.priority - a.priority

ByPriorityAscending(a, b) == a.priority - b.priority

-----------------------------------------------------------------------------
(* State after construction *)

\* bufferedInputs is not assigned by the constructor
NotSet == [ undefined |-> TRUE ]

\* new FelineNeuroDiagnosisEngine(data) sorts data.diagnosticRules in place and
\* keeps that array as sortedRules; new FelineNeuroForwardChainingEngine(data),
\* on the same data, compiles its inference rules from it.
ConstructedWith(table, db) ==
    /\ sortedRules = Refs(StableSort(table,
            [ j \in DOMAIN table |->
                [ i \in DOMAIN table |-> ByPriorityAscending(table[j], table[i]) ] ]))
    /\ forwardChainingRules = Refs(convertToForwardChainingRules(Deref(sortedRules)))
    /\ lastDiagnosis = Null
    /\ bufferedInputs = NotSet
    /\ fcLastDiagnosis = Null
    /\ chain = Null
    /\ database = db
    /\ op = "none"
    /\ inputs = NotSet
    /\ outcome = "none"
    /\ result = Null
    /\ error = "none"
    /\ calls = 0

\* An engine constructed where no FelineNeuroDiagnosisDB is defined:
\* this.database stays null
Constructed(table) == ConstructedWith(table, Null) /\ app = Null

Init == \E table \in RuleTables : Constructed(table)

InitShipped == Constructed(diagnosticRules)

-----------------------------------------------------------------------------
(* Operations *)

Called(name, in) ==
    /\ op' = name
    /\ inputs' = in
    /\ calls' = calls + 1

Returns(value) == outcome' = "returned" /\ result' = value /\ error' = "none"

Throws(kind) == outcome' = "threw" /\ result' = Null /\ error' = kind

\* Fault variant of runDiagnosis: the inputs are buffered before the validation
\* gate, so a rejected observation overwrites bufferedInputs
RunDiagnosisBufferingFirst(in) ==
    /\ Called("runDiagnosis", in)
    /\ bufferedInputs' = in
    /\ \E validation \in { validateCompleteInputs(in) } :
        IF ~validation.isValid
        THEN /\ Throws("Incomplete inputs")
             /\ UNCHANGED lastDiagnosis
        ELSE \E allMatches \in { evaluateAllRules(Deref(sortedRules), in) } :
                IF Len(allMatches) = 0
                THEN /\ Throws("System error: No diagnostic rules matched")
                     /\ UNCHANGED lastDiagnosis
                ELSE \E diagnosis \in
                         { createEnhancedDiagnosisResult(
                               Deref(sortedRules), allMatches[1], in, allMatches) } :
                         /\ lastDiagnosis' = diagnosis
                         /\ Returns(diagnosis)
    /\ UNCHANGED database
    /\ UNCHANGED << sortedRules, forwardChainingRules, fcLastDiagnosis, chain >>

\* Fault variant of runDiagnosis: with no match it falls back to the rule at the
\* end of the table instead of throwing
RunDiagnosisDefaulting(in) ==
    /\ Called("runDiagnosis", in)
    /\ \E validation \in { validateCompleteInputs(in) } :
        IF ~validation.isValid
        THEN /\ Throws("Incomplete inputs")
             /\ UNCHANGED << lastDiagnosis, bufferedInputs >>
        ELSE \E allMatches \in { evaluateAllRules(Deref(sortedRules), in) } :
             \E last \in { Deref(sortedRules)[Len(sortedRules)] } :
             \E fallback \in { [ rule |-> last, priority |-> last.priority,
                                  ruleIndex |-> Len(sortedRules) - 1,
                                  score |-> calculateWeightedScore(last, in) ] } :
             \E ranked \in { IF Len(allMatches) = 0 THEN << fallback >> ELSE allMatches } :
             \E diagnosis \in
                  { createEnhancedDiagnosisResult(
                        Deref(sortedRules), ranked[1], in, ranked) } :
                /\ bufferedInputs' = in
                /\ lastDiagnosis' = diagnosis
                /\ Returns(diagnosis)
    /\ UNCHANGED database
    /\ UNCHANGED << sortedRules, forwardChainingRules, fcLastDiagnosis, chain >>

\* Fault variant of runDiagnosis: the rules are evaluated on the buffered
\* observation of the previous evaluation when there is one
\* (this.bufferedInputs = this.bufferedInputs || { ...inputs })
RunDiagnosisOnBuffered(in) ==
    /\ Called("runDiagnosis", in)
    /\ \E validation \in { validateCompleteInputs(in) } :
        IF ~validation.isValid
        THEN /\ Throws("Incomplete inputs")
             /\ UNCHANGED << lastDiagnosis, bufferedInputs >>
        ELSE \E buffered \in { IF bufferedInputs = NotSet THEN in ELSE bufferedInputs } :
             \E allMatches \in { evaluateAllRules(Deref(sortedRules), buffered) } :
                /\ bufferedInputs' = buffered
                /\ IF Len(allMatches) = 0
                   THEN /\ Throws("System error: No diagnostic rules matched")
                        /\ UNCHANGED lastDiagnosis
                   ELSE \E diagnosis \in
                            { createEnhancedDiagnosisResult(
                                  Deref(sortedRules), allMatches[1], buffered, allMatches) } :
                            /\ lastDiagnosis' = diagnosis
                            /\ Returns(diagnosis)
    /\ UNCHANGED database
    /\ UNCHANGED << sortedRules, forwardChainingRules, fcLastDiagnosis, chain >>

\* FelineNeuroDiagnosisEngine.runDiagnosis(inputs, options).  (Each const of the
\* code is bound once, as the single element of a set.)
RunDiagnosis(in) ==
    /\ Called("runDiagnosis", in)
    /\ \E validation \in { validateCompleteInputs(in) } :
        IF ~validation.isValid
        THEN /\ Throws("Incomplete inputs")
             /\ UNCHANGED << lastDiagnosis, bufferedInputs >>
        ELSE \E allMatches \in { evaluateAllRules(Deref(sortedRules), in) } :
                /\ bufferedInputs' = in
                /\ IF Len(allMatches) = 0
                   THEN /\ Throws("System error: No diagnostic rules matched")
                        /\ UNCHANGED lastDiagnosis
                   ELSE \E diagnosis \in
                            { createEnhancedDiagnosisResult(
                                  Deref(sortedRules), allMatches[1], in, allMatches) } :
                            /\ lastDiagnosis' = diagnosis
                            /\ Returns(diagnosis)
    /\ UNCHANGED database
    /\ UNCHANGED << sortedRules, forwardChainingRules, fcLastDiagnosis, chain >>

\* FelineNeuroDiagnosisEngine.validateCompleteInputs(inputs)
ValidateCompleteInputs(in) ==
    /\ Called("validateCompleteInputs", in)
    /\ Returns(validateCompleteInputs(in))
    /\ UNCHANGED database
    /\ UNCHANGED << sortedRules, forwardChainingRules, lastDiagnosis, bufferedInputs,
                    fcLastDiagnosis, chain >>

\* Fault variant of reset: it only logs, lastDiagnosis is kept
ResetOnlyLogging ==
    /\ op' = "reset"
    /\ calls' = calls + 1
    /\ Returns(Null)
    /\ UNCHANGED database
    /\ UNCHANGED << sortedRules, forwardChainingRules, lastDiagnosis, bufferedInputs,
                    fcLastDiagnosis, chain, inputs >>

\* FelineNeuroDiagnosisEngine.reset()
Reset ==
    /\ lastDiagnosis' = Null
    /\ op' = "reset"
    /\ calls' = calls + 1
    /\ Returns(Null)
    /\ UNCHANGED database
    /\ UNCHANGED << sortedRules, forwardChainingRules, bufferedInputs, fcLastDiagnosis,
                    chain, inputs >>

\* FelineNeuroDiagnosisEngine.getSystemStats().  (A rule's name is identified
\* with its id, a diagnosis with the id of its rule; the timestamp is left out.)
GetSystemStats ==
    /\ op' = "getSystemStats"
    /\ calls' = calls + 1
    /\ Returns([ totalRules |-> Len(sortedRules),
                 rulesPriority |-> [ i \in DOMAIN sortedRules |->
                                       [ priority |-> RuleById[sortedRules[i]].priority,
                                         id |-> sortedRules[i] ] ],
                 lastDiagnosis |-> IF lastDiagnosis # Null
                                   THEN [ diagnosis |-> lastDiagnosis.ruleId,
                                          priority |-> lastDiagnosis.priority ]
                                   ELSE Null,
                 systemType |-> "Priority Waterfall Logic",
                 version |-> "1.0.0" ])
    /\ UNCHANGED database
    /\ UNCHANGED << sortedRules, forwardChainingRules, lastDiagnosis, bufferedInputs,
                    fcLastDiagnosis, chain, inputs >>

\* storeDiagnosisInDatabase(diagnosis, inputs), up to its await: with a database
\* object the storeDiagnosis call is started, and its promise is left pending
\* (the async function returns to runDiagnosis at once); without one nothing
\* happens
storeDiagnosisInDatabase(diagnosis) ==
    database' = IF database # Null
                THEN [ database EXCEPT !.pending = Append(database.pending, diagnosis.ruleId) ]
                ELSE database

\* The init() promise of the database settles: initDatabase logs either
\* outcome, and this.database keeps the object in both
DatabaseInitSettles ==
    /\ database # Null
    /\ database.init = "pending"
    /\ \E outcomeOfInit \in { "ready", "failed" } :
          database' = [ database EXCEPT !.init = outcomeOfInit ]
    /\ UNCHANGED << sortedRules, forwardChainingRules, lastDiagnosis, bufferedInputs,
                    fcLastDiagnosis, chain, op, inputs, outcome, result, error, calls >>

\* The oldest pending storeDiagnosis promise resolves: 'Diagnosis stored'
StoreResolves ==
    /\ database # Null
    /\ database.pending # << >>
    /\ database' = [ database EXCEPT !.pending = Tail(database.pending),
                                     !.stored = database.stored + 1 ]
    /\ UNCHANGED << sortedRules, forwardChainingRules, lastDiagnosis, bufferedInputs,
                    fcLastDiagnosis, chain, op, inputs, outcome, result, error, calls >>

\* It rejects (or the call threw): the catch of storeDiagnosisInDatabase logs
\* 'Failed to store diagnosis in database'
StoreRejects ==
    /\ database # Null
    /\ database.pending # << >>
    /\ database' = [ database EXCEPT !.pending = Tail(database.pending),
                                     !.failures = database.failures + 1 ]
    /\ UNCHANGED << sortedRules, forwardChainingRules, lastDiagnosis, bufferedInputs,
                    fcLastDiagnosis, chain, op, inputs, outcome, result, error, calls >>

\* Fault variant of runDiagnosis: the store is awaited outside any try, so
\* runDiagnosis fails when the database failed to initialise
FcRunDiagnosisAwaitingStore(in) ==
    /\ Called("fcRunDiagnosis", in)
    /\ \E initialFacts \in { convertInputsToFacts(in) } :
       \E inferenceResult \in
            { forwardChaining(DerefInference(forwardChainingRules), initialFacts) } :
       \E diagnosis \in { selectBestDiagnosis(inferenceResult) } :
            IF database # Null /\ database.init = "failed"
            THEN /\ Throws("Failed to store diagnosis in database")
                 /\ UNCHANGED << fcLastDiagnosis, database >>
            ELSE /\ storeDiagnosisInDatabase(diagnosis)
                 /\ fcLastDiagnosis' = diagnosis
                 /\ Returns(diagnosis)
    /\ UNCHANGED << sortedRules, forwardChainingRules, lastDiagnosis, bufferedInputs, chain >>

\* FelineNeuroForwardChainingEngine.runDiagnosis(inputs, options)
FcRunDiagnosis(in) ==
    /\ Called("fcRunDiagnosis", in)
    /\ \E initialFacts \in { convertInputsToFacts(in) } :
       \E inferenceResult \in
            { forwardChaining(DerefInference(forwardChainingRules), initialFacts) } :
       \E diagnosis \in { selectBestDiagnosis(inferenceResult) } :
            /\ storeDiagnosisInDatabase(diagnosis)
            /\ fcLastDiagnosis' = diagnosis
            /\ Returns(diagnosis)
    /\ UNCHANGED << sortedRules, forwardChainingRules, lastDiagnosis, bufferedInputs, chain >>

\* The same call, one step of forwardChaining at a time.
\* Entry: initialFacts = convertInputsToFacts(inputs); the locals of
\* forwardChaining are initialised (position 0 is the test of the while loop).
FcBegin(in) ==
    /\ chain = Null
    /\ Called("fcRunDiagnosis", in)
    /\ outcome' = "running" /\ result' = Null /\ error' = "none"
    /\ chain' = [ workingMemory |-> convertInputsToFacts(in),
                  appliedRules |-> << >>,
                  changed |-> TRUE,
                  iteration |-> 0,
                  position |-> 0 ]
    /\ UNCHANGED database
    /\ UNCHANGED << sortedRules, forwardChainingRules, lastDiagnosis, bufferedInputs,
                    fcLastDiagnosis >>

\* while (changed && iteration < 10) { changed = false; iteration++; ...
FcEnterScan ==
    /\ chain # Null
    /\ chain.position = 0
    /\ chain.changed /\ chain.iteration < MaxIterations
    /\ chain' = [ chain EXCEPT !.changed = FALSE,
                               !.iteration = chain.iteration + 1,
                               !.position = 1 ]
    /\ UNCHANGED database
    /\ UNCHANGED << sortedRules, forwardChainingRules, lastDiagnosis, bufferedInputs,
                    fcLastDiagnosis, op, inputs, outcome, result, error, calls >>

\* One turn of for (const rule of this.forwardChainingRules) { ... }
FcVisitRule ==
    /\ chain # Null
    /\ chain.position \in 1 .. Len(forwardChainingRules)
    /\ \E st \in { ApplyRule(InferenceRuleById[forwardChainingRules[chain.position]],
                              chain.iteration,
                              [ workingMemory |-> chain.workingMemory,
                                appliedRules |-> chain.appliedRules,
                                changed |-> chain.changed ]) } :
          chain' = [ workingMemory |-> st.workingMemory,
                     appliedRules |-> st.appliedRules,
                     changed |-> st.changed,
                     iteration |-> chain.iteration,
                     position |-> IF chain.position = Len(forwardChainingRules)
                                  THEN 0 ELSE chain.position + 1 ]
    /\ UNCHANGED database
    /\ UNCHANGED << sortedRules, forwardChainingRules, lastDiagnosis, bufferedInputs,
                    fcLastDiagnosis, op, inputs, outcome, result, error, calls >>

\* The while loop is left: forwardChaining returns, the diagnosis is selected,
\* stored and returned
FcFinish ==
    /\ chain # Null
    /\ chain.position = 0
    /\ ~(chain.changed /\ chain.iteration < MaxIterations)
    /\ \E inferenceResult \in { [ derivedFacts |-> chain.workingMemory,
                                   appliedRules |-> chain.appliedRules,
                                   iterations |-> chain.iteration ] } :
       \E diagnosis \in { selectBestDiagnosis(inferenceResult) } :
            /\ storeDiagnosisInDatabase(diagnosis)
            /\ fcLastDiagnosis' = diagnosis
            /\ Returns(diagnosis)
    /\ chain' = Null
    /\ UNCHANGED << sortedRules, forwardChainingRules, lastDiagnosis, bufferedInputs,
                    op, inputs, calls >>

-----------------------------------------------------------------------------
(* The application: FelineNeuroDiagnosisApp.runDiagnosis.  The actions of the
   engines above say nothing of the application's state; a specification that
   uses them without the application keeps it unchanged. *)

\* The invocations of the application's runDiagnosis (button clicks and
\* Ctrl/Cmd+Enter) that are followed
MaxInvocations == 2

Invocations == 1 .. MaxInvocations

\* What collectInputs() can read off the form: the checkboxes are booleans, a
\* select holds one of its values or '' while nothing is chosen
FormObservations ==
    ObservationsWith(SessionGood, {})
    \cup { [ in EXCEPT !["age_group"] = "" ] : in \in ObservationsWith(SessionGood, {}) }

\* The application after its constructor: this.isAnalyzing = false
NewApp ==
    [ isAnalyzing |-> FALSE,
      dialogs |-> 0,
      pc |-> [ i \in Invocations |-> "idle" ],
      inputs |-> [ i \in Invocations |-> NotSet ] ]

EngineUntouched ==
    UNCHANGED << sortedRules, forwardChainingRules, lastDiagnosis, bufferedInputs,
                 fcLastDiagnosis, chain, database, op, inputs, outcome, result, error, calls >>

\* runDiagnosis() from its entry to its first await: the isAnalyzing guard,
\* collectInputs, the validation, and the confirmation dialog appended to the
\* document
AppRunDiagnosis(i) ==
    /\ app.pc[i] = "idle"
    /\ IF app.isAnalyzing
       THEN app' = [ app EXCEPT !.pc[i] = "returned early" ]
       ELSE \E in \in FormObservations :
              IF ~validateCompleteInputs(in).isValid
              THEN app' = [ app EXCEPT !.pc[i] = "rejected" ]
              ELSE app' = [ app EXCEPT !.pc[i] = "dialog",
                                       !.inputs[i] = in,
                                       !.dialogs = app.dialogs + 1 ]
    /\ EngineUntouched

\* The user answers: a click on Proceed or Cancel, or Escape.  The listeners
\* are found by document.getElementById and on document, so the answer reaches
\* every dialog that is open: each is removed and its promise resolved
AppDialogAnswered(userConfirmed) ==
    /\ app.dialogs > 0
    /\ app' = [ app EXCEPT
                  !.dialogs = 0,
                  !.pc = [ i \in Invocations |->
                             IF app.pc[i] = "dialog"
                             THEN IF userConfirmed THEN "confirmed" ELSE "cancelled"
                             ELSE app.pc[i] ] ]
    /\ EngineUntouched

\* After the dialog: this.isAnalyzing = true, the overlay, and the await of
\* simulateEnhancedAnalysis
AppStartAnalysis(i) ==
    /\ app.pc[i] = "confirmed"
    /\ app' = [ app EXCEPT !.pc[i] = "analysing", !.isAnalyzing = TRUE ]
    /\ EngineUntouched

\* After the simulated analysis: the engine is called, its result displayed or
\* its error caught, and the finally block clears isAnalyzing
AppEngineCall(i) ==
    /\ app.pc[i] = "analysing"
    /\ RunDiagnosis(app.inputs[i])
    /\ app' = [ app EXCEPT !.pc[i] = IF outcome' = "returned" THEN "completed" ELSE "failed",
                            !.isAnalyzing = FALSE ]

-----------------------------------------------------------------------------
(* Specifications *)

\* One evaluation of a valid observation by a freshly constructed engine
Next ==
    /\ calls = 0
    /\ UNCHANGED app
    /\ \E in \in ValidObservations : RunDiagnosis(in) \/ FcRunDiagnosis(in)

Spec == Init /\ [][Next]_vars

\* One call of the validator on any observation
NextValidate ==
    /\ calls = 0
    /\ UNCHANGED app
    /\ \E in \in Observations : ValidateCompleteInputs(in)

SpecValidate == InitShipped /\ [][NextValidate]_vars

\* One forward-chaining evaluation by a fresh engine over the shipped knowledge
\* base, observed step by step
NextChaining ==
    /\ UNCHANGED app
    /\ \/ calls = 0 /\ \E in \in ChainObservations : FcBegin(in)
       \/ FcEnterScan
       \/ FcVisitRule
       \/ FcFinish

SpecChaining == InitShipped /\ [][NextChaining]_vars

\* The life of one waterfall engine, constructed over any of the rule tables:
\* up to MaxCalls calls of its public operations, on complete observations and
\* on observations with a bad age group
EngineObservations ==
    ObservationsWith(SessionGood, {}) \cup ObservationsWith(SessionGood, { "age_group" })

NextEngine ==
    /\ calls < MaxCalls
    /\ UNCHANGED app
    /\ \/ \E in \in EngineObservations : RunDiagnosis(in)
       \/ \E in \in EngineObservations : ValidateCompleteInputs(in)
       \/ Reset
       \/ GetSystemStats

SpecEngine == Init /\ [][NextEngine]_vars

\* The database object right after the constructor: new FelineNeuroDiagnosisDB()
\* was assigned and its init() is awaited
NewDatabase == [ init |-> "pending", pending |-> << >>, stored |-> 0, failures |-> 0 ]

\* A forward-chaining engine with or without a database: up to MaxCalls
\* evaluations, while the database initialises and stores at its own pace
InitPersistence ==
    /\ \E db \in { Null, NewDatabase } : ConstructedWith(diagnosticRules, db)
    /\ app = Null

NextPersistence ==
    /\ UNCHANGED app
    /\ \/ calls < MaxCalls /\ \E in \in ForwardSessionObservations : FcRunDiagnosis(in)
       \/ DatabaseInitSettles
       \/ StoreResolves
       \/ StoreRejects

SpecPersistence == InitPersistence /\ [][NextPersistence]_vars

\* The application over the shipped knowledge base, or over its critical tier
\* alone: MaxInvocations invocations of its runDiagnosis and the user's answers
InitApp ==
    /\ \E table \in { diagnosticRules, CriticalTier } : ConstructedWith(table, Null)
    /\ app = NewApp

NextApp ==
    \/ \E i \in Invocations : AppRunDiagnosis(i)
    \/ \E userConfirmed \in BOOLEAN : AppDialogAnswered(userConfirmed)
    \/ \E i \in Invocations : AppStartAnalysis(i)
    \/ \E i \in Invocations : AppEngineCall(i)

SpecApp == InitApp /\ [][NextApp]_vars

\* A session on the two engines, constructed over the shipped knowledge base or
\* over a table without a working catch-all: up to MaxCalls operations, with
\* valid and invalid observations
InitSession ==
    \E table \in { diagnosticRules, CriticalTier, GuardedTier } : Constructed(table)

NextSession ==
    /\ calls < MaxCalls
    /\ UNCHANGED app
    /\ \/ \E in \in SessionObservations : RunDiagnosis(in)
       \/ \E in \in ForwardSessionObservations : FcRunDiagnosis(in)
       \/ Reset

SpecSession == InitSession /\ [][NextSession]_vars

-----------------------------------------------------------------------------
(* Properties: vocabulary *)

\* The engines were constructed over the shipped knowledge base
Shipped == sortedRules = Refs(diagnosticRules)

WaterfallReturned == op = "runDiagnosis" /\ outcome = "returned"

ForwardReturned == op = "fcRunDiagnosis" /\ outcome = "returned"

\* The table the waterfall engine holds, and the rules of it whose predicate
\* is true on the observation of the last call
Table == Deref(sortedRules)

MatchingIndexes == { i \in DOMAIN Table : ConditionHolds(Table[i], inputs) }

IndexInTable(id) == CHOOSE i \in DOMAIN Table : Table[i].id = id

\* An observation as the data model defines it: every categorical field in
\* its enumeration, every sign field a boolean
SignFields == { "eye_signs", "pain_signs", "head_tilt", "recent_trauma",
                "cold_limbs", "neck_flexion", "ear_issues" }

WellFormed(in) ==
    /\ in["age_group"] \in { "kitten", "adult", "senior" }
    /\ in["onset_speed"] \in { "sudden", "gradual" }
    /\ in["mobility_status"] \in { "normal", "wobbly", "paralyzed" }
    /\ in["seizures"] \in { "none", "mild", "severe" }
    /\ \A f \in SignFields : in[f] \in { JsTrue, JsFalse }

\* The result's ranking: the winner followed by the alternatives, as (id, score)
Ranking ==
    << [ id |-> result.ruleId, score |-> result.winningScore.total ] >>
    \o [ k \in DOMAIN result.alternativeMatches |->
           [ id |-> result.alternativeMatches[k].id,
             score |-> result.alternativeMatches[k].score ] ]

\* The four weights of a rule, stated from the scoring rules
FieldsReferenced(rule) ==
    UNION { { rule.condition[c][a].field : a \in DOMAIN rule.condition[c] } :
            c \in DOMAIN rule.condition }

WeightPriority(rule, base) == (IF base - rule.priority > 0 THEN base - rule.priority ELSE 0) * 10

WeightComplexity(rule) ==
    50 * (IF Cardinality(FieldsReferenced(rule)) > 1
          THEN Cardinality(FieldsReferenced(rule)) ELSE 1)

WeightSpecificity(rule) ==
    IF rule.id = "TRAUMATIC_BRAIN_INJURY" THEN 150
    ELSE IF rule.id = "SADDLE_THROMBUS" THEN 120
    ELSE IF rule.id = "ACUTE_TOXICITY" THEN 110
    ELSE IF rule.id = "THIAMINE_DEFICIENCY" THEN 100
    ELSE 0

WeightSeverity(rule) ==
    IF rule.urgency = "EMERGENCY" THEN 100
    ELSE IF rule.urgency = "HIGH" THEN 50
    ELSE IF rule.urgency = "MODERATE" THEN 25
    ELSE 0

WeightTotal(rule, base) ==
    WeightPriority(rule, base) + WeightComplexity(rule)
    + WeightSpecificity(rule) + WeightSeverity(rule)

\* The largest priority number in the table handed to the engine
MaxPriorityOfTable ==
    CHOOSE p \in { Table[i].priority : i \in DOMAIN Table } :
        \A i \in DOMAIN Table : Table[i].priority <= p

-----------------------------------------------------------------------------
(* C1 .. C10 *)

\* C1: over the shipped knowledge base, runDiagnosis of either engine on a valid
\* observation returns (never throws), and what it returns is one diagnosis
\* record carrying the id of one rule of the knowledge base, not a collection.
C1_ExactlyOneDiagnosis ==
    (Shipped /\ op \in { "runDiagnosis", "fcRunDiagnosis" } /\ WellFormed(inputs))
    => /\ outcome = "returned"
       /\ error = "none"
       /\ result # Null
       /\ "ruleId" \in DOMAIN result
       /\ result.ruleId \in Range(Refs(diagnosticRules))

\* C1 witness: the forward-chaining engine returned a diagnosis for an
\* observation on which only the catch-all rule of the waterfall matches.
C1_Witness ==
    /\ Shipped /\ ForwardReturned /\ WellFormed(inputs)
    /\ MatchingIndexes = { IndexInTable("UNDETERMINED") }
    /\ result.ruleId = "UNDETERMINED"

\* C2: the waterfall engine selects the catch-all UNDETERMINED exactly when no
\* other rule's predicate is true on the observation; then the result has no
\* alternative match, totalMatches = 1 and urgency MODERATE.
C2_CatchAllIffNoOtherMatch ==
    (Shipped /\ WaterfallReturned)
    => /\ (result.ruleId = "UNDETERMINED")
          <=> (\A i \in DOMAIN diagnosticRules :
                  diagnosticRules[i].id # "UNDETERMINED"
                  => ~ConditionHolds(diagnosticRules[i], inputs))
       /\ result.ruleId = "UNDETERMINED"
          => /\ result.alternativeMatches = << >>
             /\ result.totalMatches = 1
             /\ result.urgency = "MODERATE"

C2_Witness ==
    /\ Shipped /\ WaterfallReturned
    /\ result.ruleId = "UNDETERMINED"
    /\ result.totalMatches = 1

C4_PriorityWeightFromTableMaximum ==
    WaterfallReturned
    => result.winningScore.priority
         = WeightPriority(RuleById[result.ruleId], MaxPriorityOfTable + 1)

\* C4 amended: the priority weight is max(0, 31 - priority) * 10 with the fixed
\* base 31, whatever the table; complexity is 50 * max(1, distinct fields the
\* predicate references), a function of the rule alone; specificity and severity
\* are the fixed tables; the total is the sum of the four and is positive.  This
\* holds of the winner's breakdown and of the score of every alternative.
C4_ScoreIsSumOfFourWeights ==
    WaterfallReturned
    => /\ LET rule == RuleById[result.ruleId]
              score == result.winningScore
          IN  /\ score.priority = WeightPriority(rule, 31)
              /\ score.complexity = WeightComplexity(rule)
              /\ score.specificity = WeightSpecificity(rule)
              /\ score.severity = WeightSeverity(rule)
              /\ score.total = score.priority + score.complexity
                               + score.specificity + score.severity
       /\ \A k \in DOMAIN Ranking :
              /\ Ranking[k].score = WeightTotal(RuleById[Ranking[k].id], 31)
              /\ Ranking[k].score > 0

\* C4 witness: the catch-all won, with the floor of one condition as complexity
C4_Witness ==
    /\ WaterfallReturned
    /\ result.ruleId = "UNDETERMINED"
    /\ result.winningScore.complexity = 50
    /\ result.winningScore.priority = 10

C6_FirstMatchDetermines ==
    (Shipped /\ WaterfallReturned)
    => \A i \in MatchingIndexes : result.priority <= Table[i].priority

\* C7: a runDiagnosis call of the waterfall engine on an incomplete or malformed
\* observation throws the validation error, returns nothing, and leaves
\* lastDiagnosis and bufferedInputs as they were.
C7_InvalidInputRejected ==
    [][ (op' = "runDiagnosis" /\ calls' = calls + 1 /\ ~WellFormed(inputs'))
        => /\ outcome' = "threw"
           /\ error' = "Incomplete inputs"
           /\ result' = Null
           /\ lastDiagnosis' = lastDiagnosis
           /\ bufferedInputs' = bufferedInputs ]_vars

\* C7 witness: a call failed validation after an earlier call had succeeded
C7_Witness ==
    /\ op = "runDiagnosis" /\ outcome = "threw" /\ error = "Incomplete inputs"
    /\ ~WellFormed(inputs)
    /\ lastDiagnosis # Null
    /\ bufferedInputs # NotSet

\* C8: validateCompleteInputs reports isValid exactly for the well-formed
\* observations, and every invalid one has at least one error entry.
C8_ValidIffWellFormed ==
    op = "validateCompleteInputs"
    => /\ result.isValid <=> WellFormed(inputs)
       /\ ~WellFormed(inputs) => Len(result.errors) >= 1

\* C8 witness: a sign field holding a string was reported invalid
C8_Witness ==
    /\ op = "validateCompleteInputs"
    /\ inputs["head_tilt"] = "yes"
    /\ ~result.isValid
    /\ Len(result.errors) = 1

\* A field counts as present when it is set, and a categorical one not empty
Present(in, f) ==
    IF f \in SignFields THEN in[f] # Undefined ELSE in[f] \notin { Undefined, "" }

\* C9: the validator always returns a completeness record with completed = the
\* number of the 11 fields present, total = 11 and completed + missing = total;
\* a missing sign field makes the observation invalid, is named in the error
\* list, and the percentage is below 100; a valid observation is 11 of 11.
C9_CompletenessAlwaysComputed ==
    op = "validateCompleteInputs"
    => LET c == result.completeness
       IN  /\ c.total = 11
           /\ c.completed = Cardinality({ f \in Fields : Present(inputs, f) })
           /\ c.completed + c.missing = c.total
           /\ \A f \in SignFields :
                  inputs[f] = Undefined
                  => /\ ~result.isValid
                     /\ \E e \in DOMAIN result.errors : result.errors[e].field = f
                     /\ c.percentage < 100
           /\ result.isValid => c.completed = 11 /\ c.percentage = 100

\* C9 witness: an observation without cold_limbs: 10 of 11, 91 percent
C9_Witness ==
    /\ op = "validateCompleteInputs"
    /\ inputs["cold_limbs"] = Undefined
    /\ ~result.isValid
    /\ result.completeness.completed = 10
    /\ result.completeness.percentage = 91

\* The observation of the hypoglycemia example
KittenSuddenSevere ==
    [ age_group |-> "kitten", onset_speed |-> "sudden", mobility_status |-> "normal",
      seizures |-> "severe", eye_signs |-> JsFalse, pain_signs |-> JsFalse,
      head_tilt |-> JsFalse, recent_trauma |-> JsFalse, cold_limbs |-> JsFalse,
      neck_flexion |-> JsFalse, ear_issues |-> JsFalse ]

NeckFlexionAlone(in) ==
    /\ in["neck_flexion"] = JsTrue
    /\ \A f \in SignFields \ { "neck_flexion" } : in[f] = JsFalse
    /\ in["mobility_status"] = "normal"
    /\ in["seizures"] = "none"

\* C11: for every valid observation with neck_flexion true, the other six signs
\* false, normal mobility and no seizures, whatever the age group and the onset,
\* the waterfall engine selects THIAMINE_DEFICIENCY with specificity weight 100.
C11_ThiamineSelected ==
    (Shipped /\ WaterfallReturned /\ NeckFlexionAlone(inputs))
    => /\ result.ruleId = "THIAMINE_DEFICIENCY"
       /\ result.winningScore.specificity = 100

\* C11 witness: a senior cat with gradual onset, neck ventroflexion alone
C11_Witness ==
    /\ Shipped /\ WaterfallReturned /\ NeckFlexionAlone(inputs)
    /\ inputs["age_group"] = "senior"
    /\ inputs["onset_speed"] = "gradual"
    /\ result.ruleId = "THIAMINE_DEFICIENCY"
    /\ result.totalMatches >= 2

\* Recent trauma together with severe seizures
TraumaWithSevereSeizures(in) ==
    in["recent_trauma"] = JsTrue /\ in["seizures"] = "severe"

\* Recent trauma alone: no seizures, normal mobility, no other sign
TraumaAlone(in) ==
    /\ in["recent_trauma"] = JsTrue
    /\ \A f \in SignFields \ { "recent_trauma" } : in[f] = JsFalse
    /\ in["mobility_status"] = "normal"
    /\ in["seizures"] = "none"

\* The total of the winner the engine of the current state computes for an
\* observation
WinningTotal(in) == evaluateAllRules(Table, in)[1].score.total

\* C12: for every valid observation with recent trauma and severe seizures the
\* waterfall engine selects TRAUMATIC_BRAIN_INJURY, GENERAL_TRAUMA is among the
\* alternatives, and the winning total is strictly greater than the winning
\* total of every observation with recent trauma alone; for such an observation
\* GENERAL_TRAUMA is selected.
C12_CompoundTraumaOutranks ==
    (Shipped /\ WaterfallReturned)
    => /\ TraumaWithSevereSeizures(inputs)
          => /\ result.ruleId = "TRAUMATIC_BRAIN_INJURY"
             /\ \E k \in DOMAIN result.alternativeMatches :
                    result.alternativeMatches[k].id = "GENERAL_TRAUMA"
             /\ \A alone \in { o \in ValidObservations : TraumaAlone(o) } :
                    result.winningScore.total > WinningTotal(alone)
       /\ TraumaAlone(inputs) => result.ruleId = "GENERAL_TRAUMA"

\* C12 witness: trauma with severe seizures, where SADDLE_THROMBUS matches too
C12_Witness ==
    /\ Shipped /\ WaterfallReturned /\ TraumaWithSevereSeizures(inputs)
    /\ result.ruleId = "TRAUMATIC_BRAIN_INJURY"
    /\ result.winningScore.total = 650
    /\ \E k \in DOMAIN result.alternativeMatches :
          result.alternativeMatches[k].id = "SADDLE_THROMBUS"

\* The table of the current engine with every rule whose predicate raises on
\* the observation replaced by the same rule with a predicate that returns false
Quieted(in) ==
    [ i \in DOMAIN Table |->
        IF ConditionRaises(Table[i], in)
        THEN [ Table[i] EXCEPT !.condition = << << >> >> ]
        ELSE Table[i] ]

\* C13: when a rule's predicate raises during a waterfall evaluation, the rule
\* counts as a non-match and the other rules are still evaluated: the call ends
\* exactly as it would with that predicate returning false (same winner, score,
\* totalMatches and alternatives, or the zero-match error when nothing else
\* matches), and the predicate's error never leaves runDiagnosis.
C13_RaisingPredicateIsNonMatch ==
    (op = "runDiagnosis" /\ \E i \in DOMAIN Table : ConditionRaises(Table[i], inputs))
    => LET quiet == Quieted(inputs)
           expected == evaluateAllRules(quiet, inputs)
       IN  IF Len(expected) = 0
           THEN outcome = "threw" /\ error = "System error: No diagnostic rules matched"
           ELSE /\ outcome = "returned"
                /\ result = createEnhancedDiagnosisResult(quiet, expected[1], inputs, expected)
                /\ result.rulesEvaluated = Len(Table)
                /\ \A k \in DOMAIN Ranking : ~ConditionRaises(RuleById[Ranking[k].id], inputs)

\* C13 witness: PRIOR_HEAD_INJURY raised, and GENERAL_TRAUMA, a rule behind it
\* in the table, was still evaluated and won
C13_Witness ==
    /\ WaterfallReturned
    /\ "PRIOR_HEAD_INJURY" \in Range(sortedRules)
    /\ ConditionRaises(RuleById["PRIOR_HEAD_INJURY"], inputs)
    /\ IndexInTable("PRIOR_HEAD_INJURY") < IndexInTable("GENERAL_TRAUMA")
    /\ result.ruleId = "GENERAL_TRAUMA"
    /\ result.rulesEvaluated = 7

\* No rule of the engine's table matches the observation: every predicate
\* returns false or raises
NoRuleMatches(in) == \A i \in DOMAIN Table : ~ConditionHolds(Table[i], in)

\* C14: a runDiagnosis call of the waterfall engine on a valid observation that
\* no rule matches (the table has no always-true rule, or its catch-all raises)
\* throws the fatal error, returns no diagnosis, and leaves lastDiagnosis as it
\* was before the call.
C14_ZeroMatchesIsFatal ==
    [][ (op' = "runDiagnosis" /\ calls' = calls + 1
            /\ WellFormed(inputs') /\ NoRuleMatches(inputs'))
        => /\ outcome' = "threw"
           /\ error' = "System error: No diagnostic rules matched"
           /\ result' = Null
           /\ lastDiagnosis' = lastDiagnosis ]_vars

\* C14 witness: the zero-match error after an earlier successful diagnosis,
\* which is still the last diagnosis, in a table whose catch-all raises
C14_Witness ==
    /\ op = "runDiagnosis" /\ outcome = "threw"
    /\ error = "System error: No diagnostic rules matched"
    /\ WellFormed(inputs) /\ NoRuleMatches(inputs)
    /\ "UNCLASSIFIED" \in Range(sortedRules)
    /\ lastDiagnosis # Null
    /\ lastDiagnosis.ruleId = "TRAUMATIC_BRAIN_INJURY"

\* The inference rules of the forward-chaining engine of the current state
InferenceRules == DerefInference(forwardChainingRules)

\* A set of facts is closed under the inference rules: every rule whose
\* conditions are all in it has all its conclusions in it
ClosedUnderRules(facts) ==
    \A r \in DOMAIN InferenceRules :
        (\A c \in DOMAIN InferenceRules[r].conditions :
              InferenceRules[r].conditions[c] \in facts)
        => \A c \in DOMAIN InferenceRules[r].conclusions :
              InferenceRules[r].conclusions[c] \in facts

\* C15: for every valid observation forward chaining stops before the cap of 10
\* scans (so it stops because a full scan added no fact), and the final working
\* memory is a fixed point of the inference rules: one more scan adds nothing.
C15_ChainingReachesFixedPoint ==
    ForwardReturned
    => /\ result.iterations >= 1
       /\ result.iterations < 10
       /\ ClosedUnderRules(Range(result.derivedFacts))

\* C15 witness: a two-step chain (paralysis, then vascular compromise) was
\* derived, and the run ended after its second scan
C15_Witness ==
    /\ Shipped /\ ForwardReturned
    /\ "has_paralysis" \in Range(result.derivedFacts)
    /\ "vascular_compromise" \in Range(result.derivedFacts)
    /\ result.iterations = 2


\* The ids of the rules applied so far, in order of application
AppliedIds(applied) == [ k \in DOMAIN applied |-> applied[k].id ]

\* One step of a forward-chaining evaluation in progress keeps the claim's
\* three properties
ChainingStep ==
    chain # Null /\ chain' # Null
    => /\ Range(convertInputsToFacts(inputs)) \subseteq Range(chain'.workingMemory)
       /\ Range(chain.workingMemory) \subseteq Range(chain'.workingMemory)
       /\ Len(chain'.appliedRules) \in { Len(chain.appliedRules), Len(chain.appliedRules) + 1 }
       /\ SubSeq(chain'.appliedRules, 1, Len(chain.appliedRules)) = chain.appliedRules
       /\ Len(chain'.appliedRules) = Len(chain.appliedRules)
          => chain'.workingMemory = chain.workingMemory
       /\ Len(chain'.appliedRules) > Len(chain.appliedRules)
          => LET applied == chain'.appliedRules[Len(chain'.appliedRules)]
                 rule == InferenceRuleById[applied.id]
             IN  /\ applied.id = forwardChainingRules[chain.position]
                 /\ \A c \in DOMAIN rule.conditions :
                        rule.conditions[c] \in Range(chain.workingMemory)
                 /\ applied.id \notin Range(AppliedIds(chain.appliedRules))
                 /\ Range(rule.conclusions) \subseteq Range(chain'.workingMemory)

\* C16: during one forward-chaining evaluation the working memory only grows
\* (it starts as the initial facts and every step keeps all the facts it had),
\* a rule is applied only when all its conditions are in the working memory of
\* that moment, and no rule is applied twice; the facts returned are the final
\* working memory.
C16_WorkingMemoryOnlyGrows ==
    [][ /\ chain = Null /\ chain' # Null
          => chain'.workingMemory = convertInputsToFacts(inputs')
        /\ ChainingStep
        /\ chain # Null /\ chain' = Null
          => /\ result'.derivedFacts = chain.workingMemory
             /\ result'.appliedRules = AppliedIds(chain.appliedRules) ]_vars

\* C16 witness: an evaluation has just applied a rule one of whose conditions is
\* not an initial fact: it was derived by a rule applied before it
C16_Witness ==
    /\ chain # Null
    /\ Len(chain.appliedRules) >= 2
    /\ chain.position > 1
    /\ chain.appliedRules[Len(chain.appliedRules)].id = forwardChainingRules[chain.position - 1]
    /\ "has_paralysis" \in Range(chain.workingMemory)
    /\ "has_paralysis" \notin Range(convertInputsToFacts(inputs))
    /\ "has_paralysis" \in
          Range(InferenceRuleById[chain.appliedRules[Len(chain.appliedRules)].id].conditions)

\* The diagnosis facts of a returned forward-chaining result, in the order in
\* which they entered the working memory
DiagnosisFactsOf(res) == SelectSeq(res.derivedFacts, IsDiagnosisFact)

\* The compiled confidence of the rule a diagnosis fact stands for
ConfidenceOfFact(fact) == InferenceRuleById[RuleIdOfFact(fact)].confidence

\* C17: the forward-chaining engine returns the diagnostic rule whose
\* diagnosis_<id> fact is in the final working memory with the highest compiled
\* confidence among the diagnosis facts present: the fact of the returned rule
\* is present, the returned confidence is that rule's compiled confidence, and
\* no diagnosis fact present has a strictly higher confidence.  Over the shipped
\* rules a diagnosis fact is always present; the built-in undetermined result is
\* returned only when none is.
C17_HighestConfidenceFactWins ==
    ForwardReturned
    => LET present == Range(DiagnosisFactsOf(result))
       IN  /\ Shipped => present # {}
           /\ present = {} <=> result.standardFallback
           /\ present # {}
              => /\ DiagnosisFact(result.ruleId) \in present
                 /\ result.confidence = InferenceRuleById[result.ruleId].confidence
                 /\ result.confidence = calculateRuleConfidence(RuleById[result.ruleId])
                 /\ \A fact \in present : ConfidenceOfFact(fact) <= result.confidence

\* C17 witness: an evaluation over the shipped rules with three or more
\* diagnosis facts present returned a rule other than UNDETERMINED
C17_Witness ==
    /\ Shipped /\ ForwardReturned
    /\ Len(DiagnosisFactsOf(result)) >= 3
    /\ result.ruleId # "UNDETERMINED"
    /\ \E fact \in Range(DiagnosisFactsOf(result)) : ConfidenceOfFact(fact) < result.confidence

\* C18: the forward-chaining engine has the validation precondition of the
\* waterfall engine: a runDiagnosis call on an incomplete or malformed
\* observation (a missing sign, a categorical value outside its enumeration)
\* fails with the validation error and returns no diagnosis.
C18_ForwardEngineValidates ==
    (op = "fcRunDiagnosis" /\ ~WellFormed(inputs))
    => /\ outcome = "threw"
       /\ error = "Incomplete inputs"
       /\ result = Null

\* The catch-all rule of the shipped table, and the other 29
CatchAll == RuleById["UNDETERMINED"]

OtherRules == { i \in DOMAIN diagnosticRules : diagnosticRules[i].id # "UNDETERMINED" }

\* A valid observation that no rule but the catch-all matches
UnmatchedObservation ==
    [ age_group |-> "kitten", onset_speed |-> "sudden", mobility_status |-> "normal",
      seizures |-> "none", eye_signs |-> JsTrue, pain_signs |-> JsTrue,
      head_tilt |-> JsTrue, recent_trauma |-> JsFalse, cold_limbs |-> JsTrue,
      neck_flexion |-> JsFalse, ear_issues |-> JsFalse ]

\* C19: over the valid observations exactly one rule of the shipped table, the
\* catch-all UNDETERMINED, is true for every observation: its predicate holds on
\* every valid observation evaluated, while each of the other 29 rules is false
\* on some valid observation (one observation falsifies them all); so every
\* waterfall evaluation of a valid observation returns with at least one match.
C19_OnlyCatchAllAlwaysTrue ==
    (Shipped /\ op = "runDiagnosis" /\ WellFormed(inputs))
    => /\ Cardinality(OtherRules) = 29
       /\ ConditionHolds(CatchAll, inputs) /\ ~ConditionRaises(CatchAll, inputs)
       /\ UnmatchedObservation \in ValidObservations
       /\ \A i \in OtherRules : ~ConditionHolds(diagnosticRules[i], UnmatchedObservation)
       /\ outcome = "returned"
       /\ result.totalMatches >= 1

\* C19 witness: a valid observation on which all 29 other rules are false was
\* evaluated, and the catch-all was its single match
C19_Witness ==
    /\ Shipped /\ WaterfallReturned
    /\ inputs = UnmatchedObservation
    /\ \A i \in OtherRules : ~ConditionHolds(diagnosticRules[i], inputs)
    /\ result.totalMatches = 1

\* What a freshly constructed waterfall engine over the rules answers to an
\* observation: the outcome of the call, the diagnosis and the error
FirstWaterfallAnswer(rules, in) ==
    LET allMatches == evaluateAllRules(rules, in)
    IN  IF ~validateCompleteInputs(in).isValid
        THEN [ outcome |-> "threw", result |-> Null, error |-> "Incomplete inputs" ]
        ELSE IF Len(allMatches) = 0
        THEN [ outcome |-> "threw", result |-> Null,
               error |-> "System error: No diagnostic rules matched" ]
        ELSE [ outcome |-> "returned",
               result |-> createEnhancedDiagnosisResult(rules, allMatches[1], in, allMatches),
               error |-> "none" ]

\* The same of a freshly constructed forward-chaining engine
FirstForwardAnswer(fcRules, in) ==
    [ outcome |-> "returned",
      result |-> selectBestDiagnosis(forwardChaining(fcRules, convertInputsToFacts(in))),
      error |-> "none" ]

Answer == [ outcome |-> outcome, result |-> result, error |-> error ]

InPriorityOrder(ids) ==
    \A i, j \in DOMAIN ids : i < j => RuleById[ids[i]].priority <= RuleById[ids[j]].priority

\* The table holds the rules of an injected table, each once
HoldsInjectedRules(ids) ==
    \E table \in RuleTables :
        /\ Len(ids) = Len(table)
        /\ Range(ids) = Range(Refs(table))

\* C21: after construction sortedRules holds the rules of the injected table in
\* ascending priority order, whatever order they were injected in, and no
\* operation of the engine (runDiagnosis on valid or invalid input,
\* validateCompleteInputs, reset, getSystemStats) changes the table or its order.
C21_RuleTableSortedAndFrozen ==
    [][ /\ InPriorityOrder(sortedRules)
        /\ HoldsInjectedRules(sortedRules)
        /\ sortedRules' = sortedRules ]_vars

\* C21 witness: an engine built over a table injected out of priority order
\* has evaluated an observation and then reported its statistics
C21_Witness ==
    /\ Range(sortedRules) = Range(Refs(GuardedTier))
    /\ sortedRules # Refs(GuardedTier)
    /\ calls >= 3
    /\ op = "getSystemStats"
    /\ result.lastDiagnosis # Null
    /\ result.totalRules = Len(GuardedTier)

\* An evaluation by the forward-chaining engine is the step
ForwardCall == calls' = calls + 1 /\ op' = "fcRunDiagnosis"

\* C22: persistence never affects a diagnosis.  Whether the database is absent,
\* still initialising, failed to initialise, or has stores pending or failed, a
\* runDiagnosis call of the forward-chaining engine returns, in the step of the
\* call, the diagnosis an engine without a database returns for the same
\* observation; with a database the store it started is still pending when it
\* returns; and when the database's promises settle, by success or by failure,
\* the answer returned and the engine's lastDiagnosis stay as they were.
C22_PersistenceNeverAffectsDiagnosis ==
    [][ /\ ForwardCall
           => /\ Answer' = FirstForwardAnswer(DerefInference(forwardChainingRules), inputs')
              /\ outcome' = "returned"
              /\ fcLastDiagnosis' = result'
              /\ database = Null => database' = Null
              /\ database # Null
                 => /\ database'.pending = Append(database.pending, result'.ruleId)
                    /\ database'.init = database.init
        /\ ~ForwardCall
           => /\ Answer' = Answer
              /\ fcLastDiagnosis' = fcLastDiagnosis ]_vars

\* C22 witness: an evaluation returned its diagnosis while the database had
\* failed to initialise, an earlier store had failed and its own was pending
C22_Witness ==
    /\ ForwardReturned
    /\ database # Null
    /\ database.init = "failed"
    /\ database.failures >= 1
    /\ database.pending # << >>
    /\ result.ruleId = "TRAUMATIC_BRAIN_INJURY"


\* The rules of the shipped table whose compiled inference rule disagrees with
\* their predicate on the observation evaluated: the fact diagnosis_<id> was
\* derived and the predicate is false, or the reverse
Miscompiled ==
    { diagnosticRules[i].id : i \in
        { i \in DOMAIN diagnosticRules :
            (DiagnosisFact(diagnosticRules[i].id) \in Range(result.derivedFacts))
            # ConditionHolds(diagnosticRules[i], inputs) } }

\* C23: the compilation of a diagnostic rule into an inference rule preserves its
\* meaning: for every valid observation and every rule R of the shipped table
\* the forward-chaining engine derives diagnosis_<R.id> exactly when R's
\* predicate is true on the observation.
C23_CompilationPreservesMeaning ==
    (Shipped /\ ForwardReturned) => Miscompiled = {}

\* The invocations of the application's runDiagnosis that have not finished
RunsInProgress ==
    { i \in Invocations : app.pc[i] \in { "dialog", "confirmed", "analysing" } }

\* C24: at most one diagnosis run of the application is in progress at any
\* time: an invocation made while an earlier one has not finished, also while
\* that one waits on its confirmation dialog, opens no second dialog and does
\* not reach the engine; and once no invocation is in progress isAnalyzing is
\* false.
C24_SingleRunInProgress ==
    /\ Cardinality(RunsInProgress) <= 1
    /\ app.dialogs <= 1
    /\ RunsInProgress = {} => ~app.isAnalyzing

\* C25: lastDiagnosis of a waterfall engine is null after construction; a
\* runDiagnosis call that returns makes it the result returned, a runDiagnosis
\* call that fails (validation, or no match) leaves it as it was, reset makes it
\* null and changes nothing else of the engine, and validateCompleteInputs and
\* getSystemStats leave it alone.  So after any sequence of calls it is null if
\* no runDiagnosis succeeded since construction or the last reset, and
\* otherwise the result of the most recent successful runDiagnosis.
C25_LastDiagnosisIsLatestSuccess ==
    [][ /\ calls = 0 => lastDiagnosis = Null
        /\ (op' = "runDiagnosis" /\ outcome' = "returned")
           => lastDiagnosis' = result' /\ result' # Null
        /\ (op' = "runDiagnosis" /\ outcome' = "threw")
           => lastDiagnosis' = lastDiagnosis
        /\ op' = "reset"
           => /\ lastDiagnosis' = Null
              /\ UNCHANGED << sortedRules, bufferedInputs >>
        /\ op' \in { "validateCompleteInputs", "getSystemStats" }
           => lastDiagnosis' = lastDiagnosis
        /\ op' = "getSystemStats"
           => (result'.lastDiagnosis = Null) <=> (lastDiagnosis = Null) ]_vars

\* C25 witness: an evaluation succeeded, the engine was reset, and a call that
\* failed validation left lastDiagnosis null
C25_Witness ==
    /\ calls = 3
    /\ op = "runDiagnosis" /\ outcome = "threw" /\ error = "Incomplete inputs"
    /\ bufferedInputs # NotSet
    /\ lastDiagnosis = Null
    /\ Shipped

\* The total score of each rule of the table on the observation evaluated
Totals == [ i \in DOMAIN Table |-> calculateWeightedScore(Table[i], inputs).total ]

Matched(id) == IndexInTable(id) \in MatchingIndexes

\* The two pairs of rules with equal totals
TiedPairs ==
    { { "HYPOGLYCEMIA", "BOTULISM_TICK_PARALYSIS" },
      { "FELINE_HYPERESTHESIA", "IDIOPATHIC_VESTIBULAR" } }

\* C26: for every valid observation exactly one matching rule of the shipped
\* table has the maximal total, and it is the winner, so the winner never
\* depends on how the sort orders equal scores.  A matching rule has the total
\* of another rule of the table only in the pairs HYPOGLYCEMIA and
\* BOTULISM_TICK_PARALYSIS (450), which never match together, and
\* FELINE_HYPERESTHESIA and IDIOPATHIC_VESTIBULAR (255), which another matching
\* rule outscores whenever both match.
C26_UniqueTopScore ==
    (Shipped /\ WaterfallReturned)
    => \A matching \in { MatchingIndexes } : \A total \in { Totals } :
       /\ \E i \in matching :
              /\ Table[i].id = result.ruleId
              /\ \A j \in matching \ { i } : total[i] > total[j]
       /\ result.alternativeMatches # << >>
          => result.winningScore.total > result.alternativeMatches[1].score
       /\ \A i \in matching : \A j \in DOMAIN Table :
              (i # j /\ total[i] = total[j])
              => /\ { Table[i].id, Table[j].id } \in TiedPairs
                 /\ total[i] = IF Table[i].id \in { "HYPOGLYCEMIA", "BOTULISM_TICK_PARALYSIS" }
                               THEN 450 ELSE 255
       /\ ~(Matched("HYPOGLYCEMIA") /\ Matched("BOTULISM_TICK_PARALYSIS"))
       /\ (Matched("FELINE_HYPERESTHESIA") /\ Matched("IDIOPATHIC_VESTIBULAR"))
          => result.winningScore.total > 255

\* C26 witness: the two rules of 255 points both matched and a third rule won
\* with more
C26_Witness ==
    /\ Shipped /\ WaterfallReturned
    /\ Matched("FELINE_HYPERESTHESIA") /\ Matched("IDIOPATHIC_VESTIBULAR")
    /\ result.winningScore.total > 255
    /\ result.totalMatches >= 4

\* The rules of the shipped table that no valid observation selects
NeverSelected == { "CEREBELLAR_HYPOPLASIA", "HYDROCEPHALUS" }

\* The rule the engine selects for an observation: allMatches[0]
WinnerOf(in) == evaluateAllRules(Table, in)[1].rule.id

\* C27: the waterfall engine never selects CEREBELLAR_HYPOPLASIA or
\* HYDROCEPHALUS: whenever one of them matches, NEURO_FIP matches too and has
\* the higher total (440 against 250 and 325).  Each of the other 28 rules of
\* the table is selected for some valid observation.  (The winners of all
\* valid observations are collected once, in the state where the evaluation of
\* the observation that only the catch-all matches has returned.)
C27_ShadowedRulesNeverSelected ==
    (Shipped /\ WaterfallReturned)
    => /\ result.ruleId \notin NeverSelected
       /\ \A id \in NeverSelected :
            ConditionHolds(RuleById[id], inputs)
            => /\ ConditionHolds(RuleById["NEURO_FIP"], inputs)
               /\ calculateWeightedScore(RuleById["NEURO_FIP"], inputs).total
                  > calculateWeightedScore(RuleById[id], inputs).total
               /\ calculateWeightedScore(RuleById["NEURO_FIP"], inputs).total = 440
               /\ calculateWeightedScore(RuleById[id], inputs).total
                  = IF id = "CEREBELLAR_HYPOPLASIA" THEN 250 ELSE 325
       /\ inputs = UnmatchedObservation
          => { WinnerOf(in) : in \in ValidObservations }
             = Range(Refs(diagnosticRules)) \ NeverSelected

\* C27 witness: CEREBELLAR_HYPOPLASIA matched and NEURO_FIP was selected
C27_Witness ==
    /\ Shipped /\ WaterfallReturned
    /\ result.ruleId = "NEURO_FIP"
    /\ \E k \in DOMAIN result.alternativeMatches :
          result.alternativeMatches[k].id = "CEREBELLAR_HYPOPLASIA"

\* The facts that rules conclude
ConclusionsOf(rules) == UNION { Range(rules[r].conclusions) : r \in DOMAIN rules }

\* Every rule that concludes a condition of a rule stands before it in the
\* scan order
ConcludedBeforeNeeded(rules) ==
    \A r \in DOMAIN rules : \A c \in Range(rules[r].conditions) :
        \A q \in DOMAIN rules : c \in Range(rules[q].conclusions) => q < r

\* C28: with the shipped rules forward chaining takes exactly 2 scans on every
\* valid observation: every rule applied is applied in scan 1, because each
\* derived condition is concluded by rules placed before every rule that needs
\* it, and scan 2 adds no fact (the working memory after scan 1 is the final
\* one).
C28_FixedPointInTwoScans ==
    (Shipped /\ ForwardReturned)
    => \A rules \in { InferenceRules } :
       \A initialFacts \in { convertInputsToFacts(inputs) } :
       \A inference \in { forwardChaining(rules, initialFacts) } :
       \A scanOne \in { ScanRange(rules, 1, Len(rules), 1,
                            [ workingMemory |-> initialFacts, appliedRules |-> << >>,
                              changed |-> FALSE ]) } :
          /\ result.iterations = 2
          /\ inference.iterations = 2
          /\ \A k \in DOMAIN inference.appliedRules :
                inference.appliedRules[k].appliedInIteration = 1
          /\ scanOne.workingMemory = inference.derivedFacts
          /\ scanOne.appliedRules = inference.appliedRules
          /\ result.derivedFacts = inference.derivedFacts
          /\ ConcludedBeforeNeeded(rules)
          /\ { "has_paralysis", "mobility_abnormal", "age_young_or_adult" }
                \subseteq ConclusionsOf(rules)

\* C28 witness: a two-scan run applied a diagnostic rule one of whose
\* conditions is not an initial fact but the conclusion of an earlier rule
C28_Witness ==
    /\ Shipped /\ ForwardReturned
    /\ result.iterations = 2
    /\ \E k \in DOMAIN result.appliedRules :
          /\ InferenceRuleById[result.appliedRules[k]].isDiagnosticRule
          /\ \E c \in Range(InferenceRuleById[result.appliedRules[k]].conditions) :
                /\ c \notin Range(convertInputsToFacts(inputs))
                /\ c \in { "has_paralysis", "mobility_abnormal", "age_young_or_adult" }

\* C29: with the shipped rule table the forward-chaining engine never produces
\* its standard Undetermined result (priority 29, confidence 0.6): the catch-all
\* compiles to an inference rule without conditions, so diagnosis_undetermined
\* is in the final working memory of every evaluation, and the ruleId, priority
\* and urgency returned are those of a rule of the table.
C29_FallbackNeverProduced ==
    (Shipped /\ ForwardReturned)
    => /\ extractConditionsFromRule(RuleById["UNDETERMINED"]) = << >>
       /\ "diagnosis_undetermined" \in Range(result.derivedFacts)
       /\ "UNDETERMINED" \in Range(result.appliedRules)
       /\ ~result.standardFallback
       /\ result # createUndeterminedDiagnosis(
                      [ derivedFacts |-> result.derivedFacts,
                        appliedRules |-> [ k \in DOMAIN result.appliedRules |->
                                             [ id |-> result.appliedRules[k] ] ],
                        iterations |-> result.iterations ])
       /\ \E i \in DOMAIN diagnosticRules :
             /\ diagnosticRules[i].id = result.ruleId
             /\ diagnosticRules[i].priority = result.priority
             /\ diagnosticRules[i].urgency = result.urgency

\* C29 witness: only the catch-all's fact was derived, and the table's
\* UNDETERMINED rule (priority 30, confidence 0.62) was returned
C29_Witness ==
    /\ Shipped /\ ForwardReturned
    /\ DiagnosisFactsOf(result) = << "diagnosis_undetermined" >>
    /\ result.ruleId = "UNDETERMINED"
    /\ result.priority = 30
    /\ result.confidence = 62

\* The compiled confidence of a rule of a given priority, in hundredths
ConfidenceAt(priority) == calculateRuleConfidence([ priority |-> priority ])

\* The diagnostic rules that fired in the evaluation returned, in scan order
FiredDiagnosticRules ==
    SelectSeq(InferenceRules,
        LAMBDA rule : rule.isDiagnosticRule /\ rule.id \in Range(result.appliedRules))

\* C30: the compiled confidence is strictly decreasing in the priority over
\* 1..30, from 0.95 down to 0.62, also across the band boundaries 5/6, 15/16
\* and 25/26; so the forward-chaining engine returns, of the diagnostic rules
\* that fired, the one with the smallest priority number, which is the first of
\* them in table order: a first-match waterfall over the compiled conditions.
C30_ConfidenceDecreasesWithPriority ==
    (Shipped /\ ForwardReturned)
    => /\ \A p \in 1 .. 29 : ConfidenceAt(p) > ConfidenceAt(p + 1)
       /\ ConfidenceAt(1) = 95 /\ ConfidenceAt(30) = 62
       /\ ConfidenceAt(5) = 91 /\ ConfidenceAt(6) = 90
       /\ ConfidenceAt(15) = 81 /\ ConfidenceAt(16) = 80
       /\ ConfidenceAt(25) = 71 /\ ConfidenceAt(26) = 70
       /\ \A fired \in { FiredDiagnosticRules } :
             /\ fired # << >>
             /\ result.ruleId = fired[1].id
             /\ \A k \in DOMAIN fired :
                   /\ result.priority <= RuleById[fired[k].id].priority
                   /\ k > 1 => result.priority < RuleById[fired[k].id].priority
                   /\ \A c \in DOMAIN fired[k].conditions :
                         fired[k].conditions[c] \in Range(result.derivedFacts)

\* C30 witness: rules of three confidence bands fired together and the one of
\* the highest band, with the smallest priority number, was returned
C30_Witness ==
    /\ Shipped /\ ForwardReturned
    /\ result.priority \in 6 .. 15
    /\ \E k \in DOMAIN FiredDiagnosticRules :
          RuleById[FiredDiagnosticRules[k].id].priority \in 16 .. 25
    /\ \E k \in DOMAIN FiredDiagnosticRules :
          RuleById[FiredDiagnosticRules[k].id].priority \in 26 .. 30
=============================================================================
